---------------------------- MODULE Spec2Model ----------------------------
(***************************************************************************)
(* Route execution engine of the ai-gateway: route resolution, sequential  *)
(* step execution with per-step failure isolation, conflict resolution on  *)
(* the outbound body, and the raw-JSON-preserving request/response model.  *)
(*                                                                         *)
(* JSON texts are modelled as syntax trees that keep what the bytes hold   *)
(* and the decoded Go values do not: member order, duplicate members, the  *)
(* digits of integer literals and the presence of insignificant            *)
(* whitespace.  Go values (map[string]interface{}, []interface{}, float64, *)
(* string) are modelled separately; Unmarshal and Marshal convert between  *)
(* the two as encoding/json does.                                          *)
(***************************************************************************)
EXTENDS Integers, Sequences, FiniteSets, TLC

(***************************************************************************)
(* JSON texts.  A text is [ws, v]: ws tells whether the bytes hold         *)
(* insignificant whitespace, v is the literal.  A literal is a record      *)
(* [t, s, hi, lo, kids] with t the kind.  An integer literal n is held in  *)
(* two limbs, n = hi * 2^27 + lo, so that literals up to 2^54 keep every   *)
(* digit.                                                                  *)
(***************************************************************************)
Limb == 134217728

MantissaHi == 67108864

LStr(s) == [t |-> "str", s |-> s, hi |-> 0, lo |-> 0, kids |-> <<>>]

LInt(hi, lo) == [t |-> "num", s |-> "", hi |-> hi, lo |-> lo, kids |-> <<>>]

LNull == [t |-> "null", s |-> "", hi |-> 0, lo |-> 0, kids |-> <<>>]

LArr(items) == [t |-> "arr", s |-> "", hi |-> 0, lo |-> 0, kids |-> items]

LObj(members) == [t |-> "obj", s |-> "", hi |-> 0, lo |-> 0, kids |-> members]

LBad == [t |-> "bad", s |-> "", hi |-> 0, lo |-> 0, kids |-> <<>>]

\* A string literal given by its bytes: kids are its runs (see Run below).
\* The strings held in s are names and words well under any limit.
LBytes(str) == [t |-> "bstr", s |-> "", hi |-> 0, lo |-> 0, kids |-> str]

\* true and false: hi is 1 for true.
LBool(b) ==
    [t |-> "bool", s |-> "", hi |-> IF b THEN 1 ELSE 0, lo |-> 0, kids |-> <<>>]

\* A string literal made by fmt.Sprintf: the format, and what is formatted
\* into it.
LFmt(format, args) == [t |-> "str", s |-> format, hi |-> 0, lo |-> 0, kids |-> args]

Mem(k, v) == [k |-> k, v |-> v]

\* A function on 1..n as the tuple it is.
AsSeq(f) == f \o << >>

Text(ws, v) == [ws |-> ws, v |-> v]

\* Object keys of the model in the byte order sort.Strings gives them.
KeyOrder ==
    << "Model", "choices", "content", "finish_reason", "id", "image_url",
       "index", "message", "messages", "model", "n", "response_format", "role",
       "seed", "text", "tools", "type" >>

SortedKeys(S) == SelectSeq(KeyOrder, LAMBDA k : k \in S)

MemberKeys(members) == { members[i].k : i \in 1..Len(members) }

\* The member a decoder keeps for key k: the last one in the text.
LastIndex(members, k) ==
    CHOOSE i \in 1..Len(members) :
        /\ members[i].k = k
        /\ \A j \in (i+1)..Len(members) : members[j].k # k

(***************************************************************************)
(* float64 of an integer literal (strconv.ParseFloat, round to nearest,    *)
(* ties to even).  Below 2^53 every integer is exact; from 2^53 to 2^54    *)
(* only the even ones are.                                                 *)
(***************************************************************************)
Float64OfInt(hi, lo) ==
    IF hi < MantissaHi \/ lo % 2 = 0
    THEN [hi |-> hi, lo |-> lo]
    ELSE IF ((lo - 1) \div 2) % 2 = 0
         THEN [hi |-> hi, lo |-> lo - 1]
         ELSE IF lo + 1 = Limb
              THEN [hi |-> hi + 1, lo |-> 0]
              ELSE [hi |-> hi, lo |-> lo + 1]

(***************************************************************************)
(* Go values: the result of json.Unmarshal into interface{}.               *)
(***************************************************************************)
GoStr(s) == [t |-> "str", s |-> s]

GoNum(f) == [t |-> "num", hi |-> f.hi, lo |-> f.lo]

GoNil == [t |-> "null"]

GoArr(a) == [t |-> "arr", a |-> a]

GoMap(m) == [t |-> "obj", m |-> m]

GoBool(b) == [t |-> "bool", b |-> b]

\* A string given by its bytes.
GoBytes(str) == [t |-> "bstr", r |-> str]

\* A json.RawMessage held in an interface{}: the literal it holds.
GoRaw(l) == [t |-> "raw", l |-> l]

RECURSIVE Decode(_)
Decode(l) ==
    CASE l.t = "str" -> GoStr(l.s)
      [] l.t = "num" -> GoNum(Float64OfInt(l.hi, l.lo))
      [] l.t = "bool" -> GoBool(l.hi = 1)
      [] l.t = "bstr" -> GoBytes(l.kids)
      [] l.t = "arr" -> GoArr(AsSeq([i \in 1..Len(l.kids) |-> Decode(l.kids[i])]))
      [] l.t = "obj" ->
            GoMap([k \in MemberKeys(l.kids) |->
                      Decode(l.kids[LastIndex(l.kids, k)].v)])
      [] OTHER -> GoNil

RECURSIVE Encode(_)
Encode(g) ==
    CASE g.t = "str" -> LStr(g.s)
      [] g.t = "num" -> LInt(g.hi, g.lo)
      [] g.t = "bool" -> LBool(g.b)
      [] g.t = "bstr" -> LBytes(g.r)
      [] g.t = "raw" -> g.l
      [] g.t = "arr" -> LArr(AsSeq([i \in 1..Len(g.a) |-> Encode(g.a[i])]))
      [] g.t = "obj" ->
            LET ks == SortedKeys(DOMAIN g.m)
            IN  LObj(AsSeq([i \in 1..Len(ks) |-> Mem(ks[i], Encode(g.m[ks[i]]))]))
      [] OTHER -> LNull

RECURSIVE ValidLit(_)
ValidLit(l) ==
    CASE l.t = "bad" -> FALSE
      [] l.t = "arr" -> \A i \in 1..Len(l.kids) : ValidLit(l.kids[i])
      [] l.t = "obj" -> \A i \in 1..Len(l.kids) : ValidLit(l.kids[i].v)
      [] OTHER -> TRUE

\* json.Unmarshal(data, &m) for m a map[string]interface{}.  The text null
\* leaves m a nil map without an error.
UnmarshalMap(text) ==
    IF ~ValidLit(text.v) THEN [ok |-> FALSE, isNil |-> TRUE, m |-> << >>]
    ELSE IF text.v.t = "obj"
         THEN [ok |-> TRUE, isNil |-> FALSE, m |-> Decode(text.v).m]
    ELSE IF text.v.t = "null" THEN [ok |-> TRUE, isNil |-> TRUE, m |-> << >>]
    ELSE [ok |-> FALSE, isNil |-> TRUE, m |-> << >>]

\* json.Marshal(m) for m a map[string]interface{}: compact, keys sorted;
\* a nil map is written as null.
MarshalMap(isNil, m) ==
    IF isNil THEN Text(FALSE, LNull) ELSE Text(FALSE, Encode(GoMap(m)))

\* What encoding/json does with the bytes a MarshalJSON method returns:
\* they are compacted into the output.
Compact(text) == Text(FALSE, text.v)

\* The JSON value a text denotes: what survives of it when whitespace,
\* member order and shadowed duplicate members are disregarded, with every
\* number kept exact.
RECURSIVE ValueOf(_)
ValueOf(l) ==
    CASE l.t = "str" -> GoStr(l.s)
      [] l.t = "num" -> GoNum([hi |-> l.hi, lo |-> l.lo])
      [] l.t = "arr" -> GoArr(AsSeq([i \in 1..Len(l.kids) |-> ValueOf(l.kids[i])]))
      [] l.t = "obj" ->
            GoMap([k \in MemberKeys(l.kids) |->
                      ValueOf(l.kids[LastIndex(l.kids, k)].v)])
      [] OTHER -> GoNil

(***************************************************************************)
(* types.ChatRequest                                                       *)
(***************************************************************************)
NoText == Text(FALSE, LBad)

\* strings.EqualFold(k, "model"), over the keys of the model.
FoldsToModel(k) == k \in {"model", "Model"}

\* The decode of data into struct{ Model string `json:"model"` }.
ExtractModel(text) ==
    IF ~ValidLit(text.v) \/ text.v.t \notin {"obj", "null"}
    THEN [ok |-> FALSE, Model |-> ""]
    ELSE LET ms   == IF text.v.t = "obj" THEN text.v.kids ELSE << >>
             hits == SelectSeq(ms, LAMBDA x : FoldsToModel(x.k))
             strs == SelectSeq(hits, LAMBDA x : x.v.t = "str")
         IN  [ok    |-> \A i \in 1..Len(hits) : hits[i].v.t \in {"str", "null"},
              Model |-> IF Len(strs) = 0 THEN "" ELSE strs[Len(strs)].v.s]

ChatRequestUnmarshalJSON(data) ==
    LET x == ExtractModel(data)
    IN  [ok |-> x.ok,
         req |-> [Raw |-> data, Model |-> IF x.ok THEN x.Model ELSE ""]]

\* temp["model"] = r.Model on the decoded map.
SetModel(m, model) ==
    [k \in (DOMAIN m) \cup {"model"} |->
        IF k = "model" THEN GoStr(model) ELSE m[k]]

\* ChatRequest.MarshalJSON followed by the encoder's compaction.  Writing
\* temp["model"] into the nil map that the text null decodes to panics.
ChatRequestMarshalJSON(r) ==
    LET u == UnmarshalMap(r.Raw)
    IN  IF ~u.ok THEN [ok |-> FALSE, panic |-> FALSE, text |-> NoText]
        ELSE IF u.isNil THEN [ok |-> FALSE, panic |-> TRUE, text |-> NoText]
        ELSE [ok |-> TRUE, panic |-> FALSE,
              text |-> Compact(MarshalMap(FALSE, SetModel(u.m, r.Model)))]

(***************************************************************************)
(* types.ChatResponse                                                      *)
(***************************************************************************)
\* One field of the struct the response is decoded into: the last member of
\* that name decides, and null leaves the zero value.  (The decoder also
\* accepts a key that differs from the name by case only; no response of
\* the model has one.)
FieldOf(members, key, kind, zero) ==
    LET hits == SelectSeq(members, LAMBDA x : x.k = key)
        vals == SelectSeq(hits, LAMBDA x : x.v.t = kind)
    IN  [ok  |-> \A i \in 1..Len(hits) : hits[i].v.t \in {kind, "null"},
         val |-> IF Len(vals) = 0 THEN zero ELSE Decode(vals[Len(vals)].v)]

NoResponse == [Raw |-> NoText, ID |-> "", Model |-> "", Choices |-> GoNil]

ChatResponseUnmarshalJSON(data) ==
    IF ~ValidLit(data.v) \/ data.v.t \notin {"obj", "null"}
    THEN [ok |-> FALSE, resp |-> NoResponse]
    ELSE LET ms == IF data.v.t = "obj" THEN data.v.kids ELSE << >>
             id == FieldOf(ms, "id", "str", GoStr(""))
             md == FieldOf(ms, "model", "str", GoStr(""))
             ch == FieldOf(ms, "choices", "arr", GoNil)
         IN  IF id.ok /\ md.ok /\ ch.ok
             THEN [ok |-> TRUE,
                   resp |-> [Raw |-> data, ID |-> id.val.s, Model |-> md.val.s,
                             Choices |-> ch.val]]
             ELSE [ok |-> FALSE, resp |-> NoResponse]

\* A serializer that rebuilds the document from the extracted fields.
MutantResponseMarshalJSON(r) ==
    Text(FALSE, LObj(<< Mem("id", LStr(r.ID)), Mem("model", LStr(r.Model)) >>))

\* ChatResponse.MarshalJSON: the stored document, as stored.
ChatResponseMarshalJSON(r) == r.Raw

\* json.NewEncoder(w).Encode(response): the bytes MarshalJSON returns are
\* compacted into the output and a newline is written after them.
EncodeResponse(r) == [doc |-> Compact(ChatResponseMarshalJSON(r)), newline |-> TRUE]

(***************************************************************************)
(* Strings by their bytes.  A string whose length matters is a sequence of *)
(* runs [c, w, n]: n times the character c, whose UTF-8 encoding is w      *)
(* bytes long; c = "\x" is a byte that is no character.  No run is empty   *)
(* and no two neighbours have the same c.                                  *)
(***************************************************************************)
Run(c, w, n) == [c |-> c, w |-> w, n |-> n]

\* Neighbouring runs of one character are one run.
RECURSIVE Merge(_)
Merge(str) ==
    IF Len(str) < 2 THEN str
    ELSE IF str[1].c = str[2].c
         THEN Merge(<< Run(str[1].c, str[1].w, str[1].n + str[2].n) >>
                    \o SubSeq(str, 3, Len(str)))
         ELSE << str[1] >> \o Merge(Tail(str))

\* a + b
Concat(a, b) == Merge(a \o b)

\* len(str)
RECURSIVE ByteLen(_)
ByteLen(str) ==
    IF str = << >> THEN 0 ELSE str[1].w * str[1].n + ByteLen(Tail(str))

\* str[:k] for k <= len(str): the characters that fit, and the first bytes
\* of the character the cut falls into.
RECURSIVE BytePrefix(_, _)
BytePrefix(str, k) ==
    IF k = 0 \/ str = << >> THEN << >>
    ELSE LET r == str[1]
         IN  IF r.w * r.n <= k
             THEN Concat(<< r >>, BytePrefix(Tail(str), k - r.w * r.n))
             ELSE Concat(IF k \div r.w = 0 THEN << >>
                         ELSE << Run(r.c, r.w, k \div r.w) >>,
                         IF k % r.w = 0 THEN << >>
                         ELSE << Run("\\x", 1, k % r.w) >>)

\* What json.Marshal writes for a string: a byte that is no character
\* becomes U+FFFD, three bytes long.
ToValidUTF8(str) ==
    Merge(AsSeq([i \in 1..Len(str) |->
                    IF str[i].c = "\\x" THEN Run("\\ufffd", 3, str[i].n)
                    ELSE str[i]]))

(***************************************************************************)
(* The logging projections of types                                        *)
(***************************************************************************)
maxLength == 100

Ellipsis == << Run(".", 1, 3) >>

truncateContent(content) ==
    IF ByteLen(content) <= maxLength THEN content
    ELSE Concat(BytePrefix(content, maxLength), Ellipsis)

\* truncateMessageContent on the literal of the content.  null decodes
\* into the string without an error and leaves it empty; a string held by
\* name is under the limit.
truncateMessageContent(content) ==
    IF content.t = "str" THEN content
    ELSE IF content.t \in {"bstr", "null"}
    THEN LET str == IF content.t = "bstr" THEN content.kids ELSE << >>
         IN  LBytes(ToValidUTF8(truncateContent(str)))
    ELSE IF content.t = "arr"
    THEN LET a == Decode(content).a
             truncated ==
                 [i \in 1..Len(a) |->
                     LET item == a[i]
                     IN  IF /\ item.t = "obj"
                            /\ "type" \in DOMAIN item.m
                            /\ item.m["type"].t = "str"
                            /\ item.m["type"].s = "text"
                            /\ "text" \in DOMAIN item.m
                            /\ item.m["text"].t \in {"str", "bstr"}
                         THEN GoMap([k \in DOMAIN item.m |->
                                       IF k = "text" /\ item.m[k].t = "bstr"
                                       THEN GoBytes(ToValidUTF8(
                                                truncateContent(item.m[k].r)))
                                       ELSE item.m[k]])
                         ELSE item]
         IN  Encode(GoArr(AsSeq(truncated)))
    ELSE content

\* The copy of a message map with its content truncated.
TruncatedMessage(m) ==
    [k \in DOMAIN m |->
        IF k = "content" THEN GoRaw(truncateMessageContent(Encode(m[k])))
        ELSE m[k]]

TruncateRequestForLogging(r) ==
    LET u == UnmarshalMap(r.Raw)
    IN  IF r.Raw = NoText \/ ~u.ok THEN [Raw |-> NoText, Model |-> r.Model]
        ELSE IF u.isNil THEN [Raw |-> MarshalMap(TRUE, u.m), Model |-> r.Model]
        ELSE LET temp ==
                     IF "messages" \in DOMAIN u.m /\ u.m["messages"].t = "arr"
                     THEN LET msgs == u.m["messages"].a
                          IN  [u.m EXCEPT !["messages"] =
                                 GoArr(AsSeq([i \in 1..Len(msgs) |->
                                    IF msgs[i].t = "obj"
                                    THEN GoMap(TruncatedMessage(msgs[i].m))
                                    ELSE GoNil]))]
                     ELSE u.m
             IN  [Raw |-> MarshalMap(FALSE, temp), Model |-> r.Model]

\* The copy of a choice map with the content of its message truncated.
TruncatedChoice(m) ==
    [k \in DOMAIN m |->
        IF k = "message" /\ m[k].t = "obj" THEN GoMap(TruncatedMessage(m[k].m))
        ELSE m[k]]

TruncateResponseForLogging(r) ==
    LET u == UnmarshalMap(r.Raw)
    IN  IF r.Raw = NoText \/ ~u.ok THEN NoResponse
        ELSE IF u.isNil THEN [NoResponse EXCEPT !.Raw = MarshalMap(TRUE, u.m)]
        ELSE LET temp ==
                     IF "choices" \in DOMAIN u.m /\ u.m["choices"].t = "arr"
                     THEN LET choices == u.m["choices"].a
                          IN  [u.m EXCEPT !["choices"] =
                                 GoArr(AsSeq([i \in 1..Len(choices) |->
                                    IF choices[i].t = "obj"
                                    THEN GoMap(TruncatedChoice(choices[i].m))
                                    ELSE GoNil]))]
                     ELSE u.m
             IN  [NoResponse EXCEPT !.Raw = MarshalMap(FALSE, temp)]

(***************************************************************************)
(* config.GetTimeout                                                       *)
(***************************************************************************)
ValidDurations == {"5s", "30s", "300s"}

GetTimeout(stepTimeout, defaultTimeout) ==
    LET timeoutStr == IF stepTimeout = "" THEN defaultTimeout ELSE stepTimeout
    IN  IF timeoutStr = "" THEN "30s"
        ELSE IF timeoutStr \notin ValidDurations THEN "30s"
        ELSE timeoutStr

\* The default_timeout a configuration file may give; "" when it gives none.
DefaultTimeouts == {"", "300s"}

\* The gateway's own api_key.
GatewayAPIKey == "gwkey"

\* LoadConfig, as far as the fields the model keeps go: an unset
\* default_timeout becomes "30s".
LoadConfig(apiKey, defaultTimeout) ==
    [APIKey         |-> apiKey,
     DefaultTimeout |-> IF defaultTimeout = "" THEN "30s" ELSE defaultTimeout]

(***************************************************************************)
(* providers.Client                                                        *)
(***************************************************************************)
\* A Client that authorizes itself with the gateway's own key.
MutantClientGatewayKey(providerCfg, step) ==
    [name               |-> providerCfg.Name,
     apiKey             |-> GatewayAPIKey,
     baseURL            |-> providerCfg.BaseURL,
     model              |-> step.Model,
     timeout            |-> GetTimeout(step.Timeout, "30s"),
     conflictResolution |-> step.ConflictResolution]

NewClientWithRouteStep(providerCfg, step) ==
    [name               |-> providerCfg.Name,
     apiKey             |-> providerCfg.APIKey,
     baseURL            |-> providerCfg.BaseURL,
     model              |-> step.Model,
     timeout            |-> GetTimeout(step.Timeout, "30s"),
     conflictResolution |-> step.ConflictResolution]

\* A resolution that strips the field it is told to keep.
MutantDeleteKey(directive) ==
    CASE directive = "tools"  -> "tools"
      [] directive = "format" -> "response_format"
      [] OTHER -> ""

\* The key the switch of applyConflictResolution deletes; "" for the
\* default branch, which returns without touching the request.
DeleteKey(directive) ==
    CASE directive = "tools"  -> "response_format"
      [] directive = "format" -> "tools"
      [] OTHER -> ""

applyConflictResolution(c, request) ==
    LET u   == UnmarshalMap(request.Raw)
        key == DeleteKey(c.conflictResolution)
    IN  IF ~u.ok THEN [ok |-> FALSE, req |-> request]
        ELSE IF key = "" THEN [ok |-> TRUE, req |-> request]
        ELSE [ok  |-> TRUE,
              req |-> [request EXCEPT !.Raw =
                          MarshalMap(u.isNil,
                                     [k \in (DOMAIN u.m) \ {key} |-> u.m[k]])]]

\* url.Parse of baseURL + "/chat/completions" inside http.NewRequest.
MalformedURLs == {"::bad"}

\* Call up to the point where the request is handed to the HTTP client:
\* the model override, the conflict resolution, the body and the request.
\* req is Call's own copy of the request as it stands at that point.
CallPrepare(c, request) ==
    LET r1 == [request EXCEPT !.Model = c.model]
        cr == IF c.conflictResolution # ""
              THEN applyConflictResolution(c, r1)
              ELSE [ok |-> TRUE, req |-> r1]
        mj == ChatRequestMarshalJSON(cr.req)
    IN  IF ~cr.ok
        THEN [err |-> "failed to apply conflict resolution", req |-> cr.req,
              http |-> << >>]
        ELSE IF ~mj.ok
        THEN [err |-> "failed to marshal request", req |-> cr.req, http |-> << >>]
        ELSE IF c.baseURL \in MalformedURLs
        THEN [err |-> "failed to create request", req |-> cr.req, http |-> << >>]
        ELSE [err  |-> "",
              req  |-> cr.req,
              http |-> << [method  |-> "POST",
                           url     |-> << c.baseURL, "/chat/completions" >>,
                           auth    |-> << "Bearer ", c.apiKey >>,
                           timeout |-> c.timeout,
                           body    |-> mj.text] >>]

\* net/http status codes the program names.
StatusOK == 200

StatusBadRequest == 400

StatusUnauthorized == 401

StatusNotFound == 404

StatusBadGateway == 502

\* Call from the return of c.client.Do on: reply is what the transport
\* delivered.
\* A Call that takes every status from 200 to 299 for a success.
MutantCallFinish2xx(reply) ==
    IF reply.net \in {"error", "timeout"}
    THEN [err |-> "request failed", args |-> << >>, resp |-> NoResponse]
    ELSE IF reply.status < 200 \/ reply.status > 299
    THEN [err |-> "provider returned status",
          args |-> << reply.status, reply.body >>, resp |-> NoResponse]
    ELSE LET u == ChatResponseUnmarshalJSON(reply.body)
         IN  IF u.ok THEN [err |-> "", args |-> << >>, resp |-> u.resp]
             ELSE [err |-> "failed to parse response", args |-> << >>,
                   resp |-> NoResponse]

\* err is the format of the error text and args what is formatted into it.
CallFinish(reply) ==
    IF reply.net \in {"error", "timeout"}
    THEN [err |-> "request failed", args |-> << >>, resp |-> NoResponse]
    ELSE IF reply.net = "readerr"
    THEN [err |-> "failed to read response", args |-> << >>, resp |-> NoResponse]
    ELSE IF reply.status # StatusOK
    THEN [err |-> "provider returned status",
          args |-> << reply.status, reply.body >>, resp |-> NoResponse]
    ELSE LET u == ChatResponseUnmarshalJSON(reply.body)
         IN  IF u.ok THEN [err |-> "", args |-> << >>, resp |-> u.resp]
             ELSE [err |-> "failed to parse response", args |-> << >>,
                   resp |-> NoResponse]

\* A Call that takes the request by reference.
MutantCallerRequestAfterCall(callerRequest, callRequest) == callRequest

\* Call takes the ChatRequest by value: what it assigns to request.Model and
\* request.Raw lands in its own copy, and the caller's request stays as it
\* was.
CallerRequestAfterCall(callerRequest, callRequest) == callerRequest

(***************************************************************************)
(* Configuration: the providers and routes a Manager is built from.        *)
(***************************************************************************)
\* The longest route among those whose steps vary.
MaxSteps == 2

ProviderList ==
    << [Name |-> "p1",   APIKey |-> "key0", BaseURL |-> "http://zero"],
       [Name |-> "p1",   APIKey |-> "key1", BaseURL |-> "http://one"],
       [Name |-> "p2",   APIKey |-> "key2", BaseURL |-> "http://two"],
       [Name |-> "pbad", APIKey |-> "key3", BaseURL |-> "::bad"] >>

\* The steps routes are made of.  "ghost" is no provider of ProviderList.
StepPool ==
    << [Provider |-> "p1",    Model |-> "m1", Timeout |-> "",
        ConflictResolution |-> ""],
       [Provider |-> "p2",    Model |-> "m2", Timeout |-> "5s",
        ConflictResolution |-> "tools"],
       [Provider |-> "p1",    Model |-> "m3", Timeout |-> "",
        ConflictResolution |-> "format"],
       [Provider |-> "ghost", Model |-> "m4", Timeout |-> "",
        ConflictResolution |-> ""],
       [Provider |-> "pbad",  Model |-> "m5", Timeout |-> "",
        ConflictResolution |-> "tools"] >>

StepChoices == UNION { [1..n -> 1..Len(StepPool)] : n \in 0..MaxSteps }

\* Five routes.  Two share the name "gpt", the first of them with the steps
\* that vary; one differs from that name by case only; two are named like
\* the model of a step, one running through the three directives and one
\* with a step in the middle whose provider is missing.
RouteList(choice) ==
    << [Name |-> "GPT", Steps |-> << StepPool[3], StepPool[1] >>],
       [Name |-> "gpt",
        Steps |-> AsSeq([i \in 1..Len(choice) |-> StepPool[choice[i]]])],
       [Name |-> "gpt", Steps |-> << StepPool[2] >>],
       [Name |-> "m1",  Steps |-> << StepPool[2], StepPool[3], StepPool[1] >>],
       [Name |-> "m2",  Steps |-> << StepPool[1], StepPool[4], StepPool[2] >>] >>

\* A provider map that holds the first provider of the list only.
MutantNewManagerFirstProvider(list) ==
    [n \in { list[i].Name : i \in 1..(IF Len(list) = 0 THEN 0 ELSE 1) } |-> list[1]]

\* NewManager: the provider map, a later provider of a name replacing an
\* earlier one.
NewManagerProviders(list) ==
    [n \in { list[i].Name : i \in 1..Len(list) } |->
        list[CHOOSE i \in 1..Len(list) :
                /\ list[i].Name = n
                /\ \A j \in (i+1)..Len(list) : list[j].Name # n]]

(***************************************************************************)
(* Inbound request documents and upstream replies.                         *)
(***************************************************************************)
Messages ==
    LArr(<< LObj(<< Mem("role", LStr("user")), Mem("content", LStr("Hello")) >>) >>)

Tools(n) ==
    LArr(<< LObj(<< Mem("type", LStr("function")), Mem("n", n) >>) >>)

Format == LObj(<< Mem("type", LStr("json_object")) >>)

RequestDocs ==
    << Text(FALSE, LObj(<< Mem("model", LStr("gpt")), Mem("messages", Messages),
                           Mem("tools", Tools(LInt(0, 3))),
                           Mem("response_format", Format) >>)),
       Text(TRUE,  LObj(<< Mem("model", LStr("other")), Mem("tools", LNull),
                           Mem("seed", LInt(0, 42)), Mem("messages", Messages),
                           Mem("model", LStr("gpt")),
                           Mem("response_format", Format),
                           Mem("tools", Tools(LInt(0, 3))) >>)),
       Text(FALSE, LObj(<< Mem("model", LStr("GPT")), Mem("messages", Messages),
                           Mem("seed", LInt(MantissaHi, 1)) >>)),
       Text(FALSE, LObj(<< Mem("model", LStr("m1")), Mem("messages", Messages),
                           Mem("tools", Tools(LInt(MantissaHi, 3))),
                           Mem("response_format", Format) >>)),
       Text(FALSE, LObj(<< Mem("model", LStr("unknown")), Mem("messages", Messages) >>)),
       Text(FALSE, LObj(<< Mem("Model", LStr("GPT")), Mem("messages", Messages),
                           Mem("response_format", Format) >>)),
       Text(FALSE, LObj(<< Mem("model", LInt(0, 5)), Mem("messages", Messages) >>)),
       Text(FALSE, LBad),
       Text(FALSE, LObj(<< Mem("model", LStr("gp")), Mem("messages", Messages) >>)),
       Text(TRUE,  LObj(<< Mem("messages", Messages), Mem("model", LStr("m2")),
                           Mem("tools", Tools(LInt(0, 3))) >>)),
       Text(FALSE, LObj(<< Mem("model", LStr("m1")) >>)),
       Text(FALSE, LObj(<< Mem("model", LStr("m1")),
                           Mem("messages", LArr(<< LObj(<< Mem("role", LStr("tool")),
                                                           Mem("content", LStr("Hello")) >>) >>)) >>)),
       Text(FALSE, LObj(<< Mem("model", LStr("unknown")),
                           Mem("messages", LArr(<< LObj(<< Mem("role", LStr("user")),
                                                           Mem("content", LArr(<< >>)) >>) >>)) >>)) >>

\* The documents that name the route whose steps vary; the others are run
\* against one route list.
VariedDocs == {1, 2}

Choices(s) ==
    LArr(<< LObj(<< Mem("message",
                        LObj(<< Mem("role", LStr("assistant")),
                                Mem("content", LStr(s)) >>)) >>) >>)

ResponseDocs ==
    << Text(FALSE, LObj(<< Mem("id", LStr("r1")), Mem("model", LStr("up")),
                           Mem("choices", Choices("Hi")) >>)),
       Text(TRUE,  LObj(<< Mem("model", LStr("up")), Mem("id", LStr("r2")),
                           Mem("seed", LInt(MantissaHi, 1)),
                           Mem("choices", Choices("Hello")) >>)),
       Text(FALSE, LBad),
       Text(FALSE, LObj(<< Mem("id", LInt(0, 7)) >>)) >>

\* What the transport can deliver for one request.
Replies ==
    << [net |-> "error",   status |-> 0,   body |-> NoText],
       [net |-> "timeout", status |-> 0,   body |-> NoText],
       [net |-> "ok",      status |-> 500, body |-> ResponseDocs[4]],
       [net |-> "ok",      status |-> 200, body |-> ResponseDocs[3]],
       [net |-> "ok",      status |-> 200, body |-> ResponseDocs[1]],
       [net |-> "ok",      status |-> 200, body |-> ResponseDocs[2]],
       [net |-> "ok",      status |-> 201, body |-> ResponseDocs[1]] >>

(***************************************************************************)
(* server: request validation and the error responses of the handler.      *)
(***************************************************************************)
\* strings.TrimSpace(s) == "", over the strings of the model.
Blank(s) == s \in {"", " "}

ValidRoles == {"system", "user", "assistant"}

\* One element of the messages array decoded into a types.Message.  Content
\* is a json.RawMessage: the literal of the last content member, and empty
\* when there is none.
DecodeMessage(l) ==
    LET ms    == IF l.t = "obj" THEN l.kids ELSE << >>
        roles == SelectSeq(ms, LAMBDA x : x.k = "role")
        strs  == SelectSeq(roles, LAMBDA x : x.v.t = "str")
        cs    == SelectSeq(ms, LAMBDA x : x.k = "content")
    IN  [ok      |-> /\ l.t \in {"obj", "null"}
                     /\ \A i \in 1..Len(roles) : roles[i].v.t \in {"str", "null"},
         Role    |-> IF Len(strs) = 0 THEN "" ELSE strs[Len(strs)].v.s,
         Content |-> IF Len(cs) = 0 THEN << >> ELSE << cs[Len(cs)].v >>]

\* json.Unmarshal(req.Raw, &temp) for temp a struct{ Messages []types.Message }.
DecodeMessages(text) ==
    IF ~ValidLit(text.v) \/ text.v.t \notin {"obj", "null"}
    THEN [ok |-> FALSE, Messages |-> << >>]
    ELSE LET ms   == IF text.v.t = "obj" THEN text.v.kids ELSE << >>
             hits == SelectSeq(ms, LAMBDA x : x.k = "messages")
             arrs == SelectSeq(hits, LAMBDA x : x.v.t = "arr")
             last == IF Len(arrs) = 0 THEN << >> ELSE arrs[Len(arrs)].v.kids
         IN  [ok       |-> /\ \A i \in 1..Len(hits) : hits[i].v.t \in {"arr", "null"}
                           /\ \A i \in 1..Len(arrs) :
                                 \A j \in 1..Len(arrs[i].v.kids) :
                                     DecodeMessage(arrs[i].v.kids[j]).ok,
              Messages |-> AsSeq([i \in 1..Len(last) |-> DecodeMessage(last[i])])]

\* Message.ContentAsString: the string the content decodes into, "" when it
\* does not.  null decodes without an error and leaves the string empty; a
\* content of no bytes does not decode.
ContentAsString(m) ==
    IF m.Content # << >> /\ m.Content[1].t = "str" THEN m.Content[1].s ELSE ""

\* Message.ContentAsArray: the slice the content decodes into, nil when it
\* does not.  null decodes without an error and leaves the slice nil; the
\* array of no elements decodes into a slice that is not nil.
ContentAsArray(m) ==
    IF m.Content # << >> /\ m.Content[1].t = "arr"
    THEN [isNil |-> FALSE, a |-> Decode(m.Content[1]).a]
    ELSE [isNil |-> TRUE, a |-> << >>]

IsContentString(m) == ContentAsArray(m).isNil

IsContentArray(m) == ~ContentAsArray(m).isNil

\* The body of the loop of validateChatRequest for one message: the text of
\* the first check that fails, "" when none does.  ContentAsArray is not nil
\* exactly for a content that is an array; ContentAsString is "" for a
\* content that is no string.
MessageError(msg) ==
    LET isArray    == msg.Content # << >> /\ msg.Content[1].t = "arr"
        contentStr == IF msg.Content # << >> /\ msg.Content[1].t = "str"
                      THEN msg.Content[1].s ELSE ""
    IN  IF Blank(msg.Role) THEN "role is required"
        ELSE IF msg.Content = << >> THEN "content is required"
        ELSE IF ~isArray /\ Blank(contentStr) THEN "content string cannot be empty"
        ELSE IF isArray /\ Len(msg.Content[1].kids) = 0
        THEN "content array cannot be empty"
        ELSE IF msg.Role \notin ValidRoles THEN "invalid role"
        ELSE ""

validateChatRequest(req) ==
    LET d   == DecodeMessages(req.Raw)
        bad == { i \in 1..Len(d.Messages) : MessageError(d.Messages[i]) # "" }
    IN  IF ~d.ok THEN "failed to parse messages"
        ELSE IF Len(d.Messages) = 0
        THEN "messages array is required and cannot be empty"
        ELSE IF bad = {} THEN ""
        ELSE MessageError(d.Messages[CHOOSE i \in bad : \A j \in bad : i <= j])

\* json.Marshal of a config.RouteStep, a config.Route, a types.RouteStepError
\* and a types.RouteError.  The config types carry no json tags, so their
\* keys are the field names; a nil slice is written as null.
RouteStepDoc(step) ==
    LObj(<< Mem("Provider", LStr(step.Provider)), Mem("Model", LStr(step.Model)),
            Mem("Timeout", LStr(step.Timeout)),
            Mem("ConflictResolution", LStr(step.ConflictResolution)) >>)

RouteDoc(r) ==
    LObj(<< Mem("Name", LStr(r.Name)),
            Mem("Steps", IF Len(r.Steps) = 0 THEN LNull
                         ELSE LArr(AsSeq([i \in 1..Len(r.Steps) |->
                                             RouteStepDoc(r.Steps[i])]))) >>)

RouteStepErrorDoc(e) ==
    LObj(<< Mem("step_index", LInt(0, e.StepIndex)), Mem("provider", LStr(e.Provider)),
            Mem("model", LStr(e.Model)), Mem("error", LStr(e.Error)) >>)

RouteErrorDoc(r, errors) ==
    LObj(<< Mem("route", RouteDoc(r)),
            Mem("errors", IF Len(errors) = 0 THEN LNull
                          ELSE LArr(AsSeq([i \in 1..Len(errors) |->
                                              RouteStepErrorDoc(errors[i])]))) >>)

\* What writeErrorResponse writes: the status, and the types.ErrorResponse
\* encoded.  details is << >> for nil, which omitempty leaves out.
writeErrorResponse(errorType, message, code, statusCode, details) ==
    [status |-> statusCode,
     doc    |-> Text(FALSE,
                     LObj(<< Mem("error",
                                 LObj(<< Mem("type", LStr(errorType)),
                                         Mem("message", message),
                                         Mem("code", LStr(code)) >>
                                      \o (IF details = << >> THEN << >>
                                          ELSE << Mem("details", details[1]) >>))) >>))]

\* A RouteError.Error() that reports the first step error.
MutantRouteErrorFirst(e) ==
    IF Len(e.Errors) = 0
    THEN [format |-> "all route steps failed for model '%s'",
          args   |-> << LStr(e.Route.Name) >>]
    ELSE LET lastErr == e.Errors[1]
         IN  [format |-> "all route steps failed for model '%s', last error from %s/%s: %s",
              args   |-> << LStr(e.Route.Name), LStr(lastErr.Provider),
                            LStr(lastErr.Model), LStr(lastErr.Error) >>]

\* RouteError.Error(): the format and what is formatted into it.
RouteErrorError(e) ==
    IF Len(e.Errors) = 0
    THEN [format |-> "all route steps failed for model '%s'",
          args   |-> << LStr(e.Route.Name) >>]
    ELSE LET lastErr == e.Errors[Len(e.Errors)]
         IN  [format |-> "all route steps failed for model '%s', last error from %s/%s: %s",
              args   |-> << LStr(e.Route.Name), LStr(lastErr.Provider),
                            LStr(lastErr.Model), LStr(lastErr.Error) >>]

\* err.Error() of what ExecuteWithTracing returned: the format and what is
\* formatted into it.
ErrorText(res) ==
    CASE res.kind = "route_not_found" ->
            [format |-> "route lookup failed: no route found for model '%s'",
             args   |-> << LStr(res.model) >>]
      [] res.kind = "provider_not_found" ->
            [format |-> "route '%s' step %d: provider '%s' not found",
             args   |-> << LStr(res.Route.Name), LInt(0, res.step),
                           LStr(res.provider) >>]
      [] res.kind = "route_error" ->
            RouteErrorError([Route |-> res.Route, Errors |-> res.Errors])
      [] OTHER -> [format |-> "", args |-> << >>]

\* The handler from the return of ExecuteWithTracing with an error on: the
\* comparison of the error text, the type assertion, the fallback.
HandleExecutionError(req, res) ==
    LET e == ErrorText(res)
    IN  IF /\ e.format = "route lookup failed: no route found for model '%s'"
           /\ e.args = << LStr(req.Model) >>
        THEN writeErrorResponse("route_error",
                                LFmt("No route configured for model '%s'",
                                     << LStr(req.Model) >>),
                                "ROUTE_NOT_FOUND", StatusNotFound, << >>)
        ELSE IF res.kind = "route_error"
        THEN writeErrorResponse("execution_error", LStr("All route steps failed"),
                                "ROUTE_EXECUTION_FAILED", StatusBadGateway,
                                << RouteErrorDoc(res.Route, res.Errors) >>)
        ELSE writeErrorResponse("execution_error", LFmt(e.format, e.args),
                                "EXECUTION_FAILED", StatusBadGateway, << >>)

\* The two early returns of the handler.
HandleRequestError(res) ==
    IF res.reason = "Invalid JSON in request body"
    THEN writeErrorResponse("parsing_error", LStr(res.reason), "INVALID_JSON",
                            StatusBadRequest, << >>)
    ELSE writeErrorResponse("validation_error", LStr(res.reason),
                            "VALIDATION_FAILED", StatusBadRequest, << >>)

\* Key matching of the decoder is case-insensitive; over the keys of the
\* model, which differ from their lower case in these.
Lower(k) ==
    CASE k = "Model" -> "model"
      [] k = "Name" -> "name"
      [] k = "Steps" -> "steps"
      [] k = "Provider" -> "provider"
      [] k = "Timeout" -> "timeout"
      [] k = "ConflictResolution" -> "conflictresolution"
      [] OTHER -> k

\* The literal the decoder stores into the field called name: that of the
\* last matching member which is not null; LNull when there is none.
FieldLit(l, name) ==
    LET ms   == IF l.t = "obj" THEN l.kids ELSE << >>
        hits == SelectSeq(ms, LAMBDA x : Lower(x.k) = Lower(name) /\ x.v.t # "null")
    IN  IF Len(hits) = 0 THEN LNull ELSE hits[Len(hits)].v

StrField(l, name) ==
    LET v == FieldLit(l, name) IN IF v.t = "str" THEN v.s ELSE ""

IntField(l, name) ==
    LET v == FieldLit(l, name) IN IF v.t = "num" THEN v.lo ELSE 0

ArrField(l, name) ==
    LET v == FieldLit(l, name) IN IF v.t = "arr" THEN v.kids ELSE << >>

\* json.Decode of a body into a types.RouteError.
DecodeRouteError(text) ==
    LET r     == FieldLit(text.v, "route")
        steps == ArrField(r, "Steps")
        es    == ArrField(text.v, "errors")
    IN  [Route  |-> [Name  |-> StrField(r, "Name"),
                     Steps |-> AsSeq([i \in 1..Len(steps) |->
                                  [Provider |-> StrField(steps[i], "Provider"),
                                   Model    |-> StrField(steps[i], "Model"),
                                   Timeout  |-> StrField(steps[i], "Timeout"),
                                   ConflictResolution |->
                                       StrField(steps[i], "ConflictResolution")]])],
         Errors |-> AsSeq([i \in 1..Len(es) |->
                       [StepIndex |-> IntField(es[i], "step_index"),
                        Provider  |-> StrField(es[i], "provider"),
                        Model     |-> StrField(es[i], "model"),
                        Error     |-> StrField(es[i], "error")]])]

(***************************************************************************)
(* State                                                                   *)
(***************************************************************************)
VARIABLES
    providers,   \* Manager.providers: provider name -> provider config
    routes,      \* Manager.routes
    inbound,     \* the request document the caller received
    request,     \* the caller's ChatRequest
    pc,          \* where the execution stands
    route,       \* the route ExecuteWithTracing resolved
    stepIndex,   \* the loop variable of ExecuteWithTracing
    stepErrors,  \* the step errors collected so far
    attempts,    \* the Clients constructed and called, in order
    calls,       \* the HTTP requests sent upstream, in order
    outcomes,    \* what each sent request came back with, in order
    result,      \* what ExecuteWithTracing returned
    wire,        \* what the handler wrote for a successful execution
    config,      \* the loaded config.Config: APIKey, DefaultTimeout
    requestID,   \* the requestID ExecuteWithTracing is given
    cancelled,   \* the step in flight when the inbound context was cancelled; -1 when it was not
    spans,       \* what the Manager told its tracer, in order
    logs,        \* what the Manager told its logger, in order
    status,      \* the status code the handler wrote; 0 before it wrote
    errorDoc,    \* the body the handler wrote with an error status
    execs,       \* the executions running concurrently on the Manager
    candidate,   \* a configuration handed to validateConfig
    verdict,     \* what validateConfig returned for it
    arrival,     \* the HTTP request at the mux: its path and its two key headers
    served,      \* the handler the mux and the middleware gave the request to
    input,       \* a value handed to a function of types or logger
    output       \* what that function returned and left behind

vars ==
    << providers, routes, inbound, request, pc, route, stepIndex, stepErrors,
       attempts, calls, outcomes, result, wire, config, requestID, cancelled,
       spans, logs, status, errorDoc, execs, candidate, verdict, arrival,
       served, input, output >>

\* The state of the handler and of the execution it runs.
handlerVars ==
    << inbound, request, pc, route, stepIndex, stepErrors, attempts, calls,
       outcomes, result, wire, requestID, cancelled, spans, logs, status,
       errorDoc >>

\* What no step of the handler writes.
fixedVars ==
    << config, execs, candidate, verdict, arrival, served, input, output >>

NoRoute == [Name |-> "", Steps |-> << >>]

NoRequest == [Raw |-> NoText, Model |-> ""]

NoResult ==
    [kind |-> "none", reason |-> "", model |-> "", Route |-> NoRoute,
     Errors |-> << >>, step |-> 0, provider |-> "", response |-> NoResponse]

NoWire == [doc |-> NoText, newline |-> FALSE]

\* The request ids: the one Execute passes, and one as the handler generates.
RequestIDs == {"", "4f1c2a9be07d3356"}

\* No execution runs beside the handler's, and no configuration is under
\* validation.
Idle ==
    /\ execs = << >>
    /\ candidate = << >>
    /\ verdict = << >>

\* The paths the mux knows, and one it does not.
HealthPath == "/health"

ModelsPath == "/v1/models"

ChatPath == "/v1/chat/completions"

\* A header value as the pieces the middleware takes it apart into; no
\* header and an empty one are the same to Header.Get.
Pieces(s) == IF s = "" THEN << >> ELSE << s >>

\* A request the middleware admits to handleChatCompletions.
Admitted ==
    /\ arrival = [Path |-> ChatPath, XApiKey |-> Pieces(GatewayAPIKey),
                  Authorization |-> << >>]
    /\ served = "handleChatCompletions"

\* No function of types or logger is under test.
NoValue ==
    /\ input = << >>
    /\ output = << >>

\* Nothing has happened yet to the request with document d.
Fresh(d, rid) ==
    /\ inbound = RequestDocs[d]
    /\ requestID = rid
    /\ request = NoRequest
    /\ route = NoRoute
    /\ stepIndex = 0
    /\ stepErrors = << >>
    /\ attempts = << >>
    /\ calls = << >>
    /\ outcomes = << >>
    /\ result = NoResult
    /\ wire = NoWire
    /\ cancelled = -1
    /\ spans = << >>
    /\ logs = << >>
    /\ status = 0
    /\ errorDoc = NoText

\* A Manager on the configuration with the varying route being choice, and
\* a request with document d that is about to be handled.
Setup(choice, d, defaultTimeout, rid) ==
    /\ config = LoadConfig(GatewayAPIKey, defaultTimeout)
    /\ providers = NewManagerProviders(ProviderList)
    /\ routes = RouteList(choice)
    /\ Fresh(d, rid)
    /\ pc = "parse"
    /\ Admitted
    /\ NoValue

\* The gateway serving one request: the handler generates the request id.
\* The steps of the first route vary for the documents that name it, and
\* default_timeout varies for the others.
Init ==
    /\ \E choice \in StepChoices, d \in 1..Len(RequestDocs),
          dt \in DefaultTimeouts :
          /\ d \in VariedDocs \/ choice = << >>
          /\ d \in VariedDocs => dt = ""
          /\ Setup(choice, d, dt, "4f1c2a9be07d3356")
    /\ Idle

(***************************************************************************)
(* Manager                                                                 *)
(***************************************************************************)
(***************************************************************************)
(* The Manager that only logs: ExecuteWithTracing without a tracer, as a   *)
(* function of the request, the request id and the replies its upstream    *)
(* calls meet, in order.  It yields the result, the requests sent and the  *)
(* log; the result is NoResult when the replies end with a call in flight. *)
(***************************************************************************)
RECURSIVE PlainLoop(_, _, _, _, _)
PlainLoop(r, i, req, rid, st) ==
    IF i >= Len(r.Steps)
    THEN [st EXCEPT !.result = [NoResult EXCEPT !.kind = "route_error", !.Route = r,
                                                !.Errors = st.stepErrors]]
    ELSE LET step == r.Steps[i + 1]
         IN  IF step.Provider \notin DOMAIN providers
             THEN [st EXCEPT !.result = [NoResult EXCEPT
                                            !.kind = "provider_not_found",
                                            !.Route = r, !.step = i,
                                            !.provider = step.Provider]]
             ELSE LET c      == NewClientWithRouteStep(providers[step.Provider], step)
                      p      == CallPrepare(c, req)
                      f      == CallFinish(Head(st.replies))
                      failed == IF p.err # "" THEN p.err ELSE f.err
                      trying == [level |-> "info", msg |-> "Trying route step",
                                 route |-> r.Name, provider |-> step.Provider,
                                 model |-> step.Model, step |-> -1,
                                 request_id |-> rid]
                      done   == [trying EXCEPT !.step = i,
                                               !.msg = "Route step succeeded"]
                      error  == [trying EXCEPT !.step = i, !.level = "error",
                                               !.msg = "Route step failed"]
                      sent   == IF p.err # "" THEN st.sent
                                ELSE Append(st.sent, [step |-> i, http |-> p.http[1]])
                  IN  IF p.err = "" /\ st.replies = << >>
                      THEN [st EXCEPT !.sent = sent, !.logs = Append(@, trying)]
                      ELSE IF failed # ""
                      THEN PlainLoop(r, i + 1, req, rid,
                               [st EXCEPT
                                   !.sent = sent,
                                   !.logs = @ \o << trying, error >>,
                                   !.replies = IF p.err # "" THEN @ ELSE Tail(@),
                                   !.stepErrors =
                                       Append(@, [StepIndex |-> i,
                                                  Provider  |-> step.Provider,
                                                  Model     |-> step.Model,
                                                  Error     |-> failed])])
                      ELSE [st EXCEPT !.sent = sent,
                                      !.logs = @ \o << trying, done >>,
                                      !.replies = Tail(@),
                                      !.result = [NoResult EXCEPT
                                                     !.kind = "response",
                                                     !.response = f.resp]]

PlainExecuteWithTracing(req, rid, replies) ==
    LET hits == { i \in 1..Len(routes) : routes[i].Name = req.Model }
        st   == [result |-> NoResult, stepErrors |-> << >>, sent |-> << >>,
                 logs |-> << >>, replies |-> replies]
    IN  IF hits = {}
        THEN [st EXCEPT !.result = [NoResult EXCEPT !.kind = "route_not_found",
                                                    !.model = req.Model]]
        ELSE PlainLoop(routes[CHOOSE i \in hits : \A j \in hits : i <= j],
                       0, req, rid, st)

\* A Manager whose step errors name the request when it has an id.
MutantRouteStepErrorWithID(i, step, err) ==
    [StepIndex |-> i, Provider |-> step.Provider, Model |-> step.Model,
     Error |-> IF requestID = "" THEN err ELSE "request failed in traced step"]

\* A lookup that keeps scanning and returns the last route of the name.
MutantGetRoute(rs, model) ==
    LET hits == { i \in 1..Len(rs) : rs[i].Name = model }
    IN  IF hits = {} THEN [found |-> FALSE, route |-> NoRoute, model |-> model]
        ELSE [found |-> TRUE,
              route |-> rs[CHOOSE i \in hits : \A j \in hits : j <= i],
              model |-> model]

\* A lookup that falls back on the first route when no name matches.
MutantGetRouteDefault(rs, model) ==
    LET hits == { i \in 1..Len(rs) : rs[i].Name = model }
    IN  IF hits = {} THEN [found |-> TRUE, route |-> rs[1], model |-> model]
        ELSE [found |-> TRUE,
              route |-> rs[CHOOSE i \in hits : \A j \in hits : i <= j],
              model |-> model]

\* A lookup that takes the model of a step of the first route for a route
\* name of its own: a request is routed again by the model a step gave it.
MutantGetRouteByStepModel(rs, model) ==
    LET hits == { i \in 1..Len(rs) :
                     \/ rs[i].Name = model
                     \/ \E k \in 1..Len(rs[i].Steps) : rs[i].Steps[k].Model = model }
    IN  IF hits = {} THEN [found |-> FALSE, route |-> NoRoute, model |-> model]
        ELSE [found |-> TRUE,
              route |-> rs[CHOOSE i \in hits : \A j \in hits : i <= j],
              model |-> model]

\* Manager.GetRoute: the first route whose name is the model.
GetRoute(rs, model) ==
    LET hits == { i \in 1..Len(rs) : rs[i].Name = model }
    IN  IF hits = {} THEN [found |-> FALSE, route |-> NoRoute, model |-> model]
        ELSE [found |-> TRUE,
              route |-> rs[CHOOSE i \in hits : \A j \in hits : i <= j],
              model |-> model]

\* A step error that counts the steps from one.
MutantRouteStepError(i, step, err) ==
    [StepIndex |-> i + 1, Provider |-> step.Provider, Model |-> step.Model,
     Error |-> err]

\* The types.RouteStepError the loop appends for step i.
RouteStepError(i, step, err) ==
    [StepIndex |-> i, Provider |-> step.Provider, Model |-> step.Model,
     Error |-> err]

\* One call on a span of the tracer.
Ev(span, what, step, text) ==
    [span |-> span, what |-> what, step |-> step, text |-> text]

\* One call on the logger: the message and its fields.  request_id is the
\* request id, and "" for an entry that has no such field.
LogEntry(level, msg, r, i, step, rid) ==
    [level |-> level, msg |-> msg, route |-> r.Name, provider |-> step.Provider,
     model |-> step.Model, step |-> i, request_id |-> rid]

\* What ExecuteWithTracing tells the tracer: at the start of the route, at
\* a missing provider, around a step, and at the end of a route that failed.
RouteSpanStart(r, rid) ==
    << Ev("route", "Start", -1, r.Name) >>
    \o (IF rid # "" THEN << Ev("route", "request.id", -1, rid) >> ELSE << >>)

MissingProviderSpans(i) ==
    << Ev("route", "RecordError", i, "provider not found"),
       Ev("route", "SetStatus", i, "Error"), Ev("route", "End", -1, "") >>

StepSpanStart(i) == << Ev("step", "Start", i, "") >>

StepFailedSpans(i, step, err) ==
    << Ev("step", "RecordError", i, err), Ev("step", "SetStatus", i, "Error"),
       Ev("route", "RecordError", i, err),
       Ev("route", "step.failed", i, step.Provider), Ev("step", "End", i, "") >>

StepSucceededSpans(i) ==
    << Ev("step", "SetStatus", i, "Ok"), Ev("step", "End", i, ""),
       Ev("route", "End", -1, "") >>

\* A tracer that is told of a failed route without the "route.failed" event.
MutantRouteFailedSpansSilent(r) ==
    << Ev("route", "SetStatus", -1, "Error"), Ev("route", "End", -1, "") >>

RouteFailedSpans(r) ==
    << Ev("route", "SetStatus", -1, "Error"),
       Ev("route", "route.failed", Len(r.Steps), ""), Ev("route", "End", -1, "") >>

\* The handler decodes the request document into a ChatRequest and
\* validates it; a document that fails either never reaches the Manager.
ParseRequest ==
    /\ pc = "parse"
    /\ LET u == ChatRequestUnmarshalJSON(inbound)
           v == IF u.ok THEN validateChatRequest(u.req) ELSE ""
       IN  IF u.ok /\ v = ""
           THEN /\ request' = u.req
                /\ pc' = "execute"
                /\ result' = result
           ELSE /\ request' = IF u.ok THEN u.req ELSE request
                /\ pc' = "done"
                /\ result' = [NoResult EXCEPT
                                 !.kind = "parse_error",
                                 !.reason = IF u.ok THEN v
                                            ELSE "Invalid JSON in request body"]
    /\ UNCHANGED << providers, routes, inbound, route, stepIndex, stepErrors,
                    attempts, calls, outcomes, wire, requestID, cancelled,
                    spans, logs, status, errorDoc >>
    /\ UNCHANGED fixedVars

\* ExecuteWithTracing up to the loop: the route lookup, and the span of the
\* route.
ResolveRoute ==
    /\ pc = "execute"
    /\ LET g == GetRoute(routes, request.Model)
       IN  IF ~g.found
           THEN /\ result' = [NoResult EXCEPT !.kind = "route_not_found",
                                              !.model = g.model]
                /\ pc' = "done"
                /\ route' = route
                /\ spans' = spans
           ELSE /\ route' = g.route
                /\ pc' = "loop"
                /\ result' = result
                /\ spans' = spans \o RouteSpanStart(g.route, requestID)
    /\ stepIndex' = 0
    /\ stepErrors' = << >>
    /\ UNCHANGED << providers, routes, inbound, request, attempts, calls,
                    outcomes, wire, requestID, cancelled, logs, status,
                    errorDoc >>
    /\ UNCHANGED fixedVars

\* A loop that gives up at the first failed step.
MutantAbortOnFailure(i, step, err) ==
    /\ result' = [NoResult EXCEPT !.kind = "route_error", !.Route = route,
                     !.Errors = Append(stepErrors, RouteStepError(i, step, err))]
    /\ pc' = "done"
    /\ stepErrors' = Append(stepErrors, RouteStepError(i, step, err))
    /\ stepIndex' = i

\* A loop that moves on by two after a failed step.
MutantSkipOnFailure(i, step, err) ==
    /\ stepErrors' = Append(stepErrors, RouteStepError(i, step, err))
    /\ stepIndex' = i + 2
    /\ pc' = "loop"
    /\ result' = result

\* A loop that tries a failed step again.
MutantRetryOnFailure(i, step, err) ==
    /\ stepErrors' = Append(stepErrors, RouteStepError(i, step, err))
    /\ stepIndex' = i
    /\ pc' = "loop"
    /\ result' = result

\* What the loop does with a failed Call: the error is appended to the step
\* errors and the loop goes on with the next step.
AfterFailure(i, step, err) ==
    /\ stepErrors' = Append(stepErrors, RouteStepError(i, step, err))
    /\ stepIndex' = i + 1
    /\ pc' = "loop"
    /\ result' = result

\* A loop that takes a missing provider for one more failed step.
MutantMissingProvider(i, step) ==
    /\ stepErrors' = Append(stepErrors, RouteStepError(i, step, "provider not found"))
    /\ stepIndex' = i + 1
    /\ pc' = "loop"
    /\ result' = result

\* What the loop does with a step whose provider is not in the map: it
\* returns an error of its own, and the step errors go nowhere.
\* A loop that hands the step errors recorded so far to the caller when it
\* meets a step whose provider is missing.
MutantMissingProviderWithErrors(i, step) ==
    /\ result' = [NoResult EXCEPT !.kind = "provider_not_found",
                                  !.Route = route, !.step = i,
                                  !.provider = step.Provider,
                                  !.Errors = stepErrors]
    /\ pc' = "done"
    /\ UNCHANGED << stepIndex, stepErrors >>

MissingProvider(i, step) ==
    /\ result' = [NoResult EXCEPT !.kind = "provider_not_found",
                                  !.Route = route, !.step = i,
                                  !.provider = step.Provider]
    /\ pc' = "done"
    /\ UNCHANGED << stepIndex, stepErrors >>

\* A loop that sends the request of a step and goes on to the next step
\* without waiting for the reply.
MutantFanOut ==
    /\ pc = "loop"
    /\ stepIndex < Len(route.Steps)
    /\ route.Steps[stepIndex + 1].Provider \in DOMAIN providers
    /\ LET step == route.Steps[stepIndex + 1]
           c    == NewClientWithRouteStep(providers[step.Provider], step)
           p    == CallPrepare(c, request)
       IN  /\ p.err = ""
           /\ attempts' = Append(attempts,
                                 [step |-> stepIndex, client |-> c, err |-> ""])
           /\ calls' = Append(calls, [step |-> stepIndex, http |-> p.http[1]])
           /\ stepIndex' = stepIndex + 1
    /\ UNCHANGED << providers, routes, inbound, request, pc, route, stepErrors,
                    outcomes, result, wire, requestID, cancelled, spans, logs,
                    status, errorDoc >>
    /\ UNCHANGED fixedVars

\* One pass of the loop up to the upstream call: the end of the route, the
\* provider lookup, the Client, and Call up to client.Do.
StepBegin ==
    /\ pc = "loop"
    /\ IF stepIndex >= Len(route.Steps)
       THEN /\ result' = [NoResult EXCEPT !.kind = "route_error",
                                          !.Route = route, !.Errors = stepErrors]
            /\ pc' = "done"
            /\ spans' = spans \o RouteFailedSpans(route)
            /\ UNCHANGED << request, stepIndex, stepErrors, attempts, calls, logs >>
       ELSE LET step == route.Steps[stepIndex + 1]
            IN  IF step.Provider \notin DOMAIN providers
                THEN /\ MissingProvider(stepIndex, step)
                     /\ spans' = spans \o MissingProviderSpans(stepIndex)
                     /\ UNCHANGED << request, attempts, calls, logs >>
                ELSE LET c == NewClientWithRouteStep(providers[step.Provider], step)
                         p == CallPrepare(c, request)
                         trying == LogEntry("info", "Trying route step", route,
                                            -1, step, requestID)
                         failed == LogEntry("error", "Route step failed", route,
                                            stepIndex, step, requestID)
                     IN  /\ attempts' = Append(attempts,
                                               [step |-> stepIndex, client |-> c,
                                                err |-> p.err])
                         /\ request' = CallerRequestAfterCall(request, p.req)
                         /\ IF p.err # ""
                            THEN /\ AfterFailure(stepIndex, step, p.err)
                                 /\ calls' = calls
                                 /\ logs' = logs \o << trying, failed >>
                                 /\ spans' = spans \o StepSpanStart(stepIndex)
                                        \o StepFailedSpans(stepIndex, step, p.err)
                            ELSE /\ calls' = Append(calls,
                                                    [step |-> stepIndex,
                                                     http |-> p.http[1]])
                                 /\ pc' = "inflight"
                                 /\ logs' = logs \o << trying >>
                                 /\ spans' = spans \o StepSpanStart(stepIndex)
                                 /\ UNCHANGED << stepIndex, stepErrors, result >>
    /\ UNCHANGED << providers, routes, inbound, route, outcomes, wire,
                    requestID, cancelled, status, errorDoc >>
    /\ UNCHANGED fixedVars

\* A loop that returns the step errors recorded so far together with the
\* response of the step that succeeded.
MutantUpstreamReplyWithErrors ==
    /\ pc = "inflight"
    /\ \E r \in 1..Len(Replies) :
          LET f    == CallFinish(Replies[r])
              step == route.Steps[stepIndex + 1]
          IN  /\ outcomes' = Append(outcomes,
                                    [step |-> stepIndex, reply |-> Replies[r],
                                     err |-> f.err])
              /\ IF f.err # ""
                 THEN /\ AfterFailure(stepIndex, step, f.err)
                      /\ logs' = Append(logs,
                                        LogEntry("error", "Route step failed",
                                                 route, stepIndex, step, requestID))
                      /\ spans' = spans \o StepFailedSpans(stepIndex, step, f.err)
                 ELSE /\ result' = [NoResult EXCEPT !.kind = "response",
                                                    !.response = f.resp,
                                                    !.Route = route,
                                                    !.Errors = stepErrors]
                      /\ pc' = "done"
                      /\ logs' = Append(logs,
                                        LogEntry("info", "Route step succeeded",
                                                 route, stepIndex, step, requestID))
                      /\ spans' = spans \o StepSucceededSpans(stepIndex)
                      /\ UNCHANGED << stepIndex, stepErrors >>
    /\ UNCHANGED << providers, routes, inbound, request, route, attempts,
                    calls, wire, requestID, cancelled, status, errorDoc >>
    /\ UNCHANGED fixedVars

\* client.Do returns, Call finishes, and the loop takes its outcome.
UpstreamReply ==
    /\ pc = "inflight"
    /\ \E r \in 1..Len(Replies) :
          LET f    == CallFinish(Replies[r])
              step == route.Steps[stepIndex + 1]
          IN  /\ outcomes' = Append(outcomes,
                                    [step |-> stepIndex, reply |-> Replies[r],
                                     err |-> f.err])
              /\ IF f.err # ""
                 THEN /\ AfterFailure(stepIndex, step, f.err)
                      /\ logs' = Append(logs,
                                        LogEntry("error", "Route step failed",
                                                 route, stepIndex, step, requestID))
                      /\ spans' = spans \o StepFailedSpans(stepIndex, step, f.err)
                 ELSE /\ result' = [NoResult EXCEPT !.kind = "response",
                                                    !.response = f.resp]
                      /\ pc' = "done"
                      /\ logs' = Append(logs,
                                        LogEntry("info", "Route step succeeded",
                                                 route, stepIndex, step, requestID))
                      /\ spans' = spans \o StepSucceededSpans(stepIndex)
                      /\ UNCHANGED << stepIndex, stepErrors >>
    /\ UNCHANGED << providers, routes, inbound, request, route, attempts,
                    calls, wire, requestID, cancelled, status, errorDoc >>
    /\ UNCHANGED fixedVars

\* The handler writes the response of a successful execution: the status is
\* the 200 of a body written without WriteHeader.
WriteResponse ==
    /\ pc = "done"
    /\ result.kind = "response"
    /\ wire' = EncodeResponse(result.response)
    /\ status' = StatusOK
    /\ pc' = "written"
    /\ UNCHANGED << providers, routes, inbound, request, route, stepIndex,
                    stepErrors, attempts, calls, outcomes, result, requestID,
                    cancelled, spans, logs, errorDoc >>
    /\ UNCHANGED fixedVars

\* The handler writes the error response of a request it turned down or of
\* an execution that failed.
WriteError ==
    /\ pc = "done"
    /\ status = 0
    /\ result.kind # "response"
    /\ LET w == IF result.kind = "parse_error"
                THEN HandleRequestError(result)
                ELSE HandleExecutionError(request, result)
       IN  /\ status' = w.status
           /\ errorDoc' = w.doc
    /\ UNCHANGED << providers, routes, inbound, request, pc, route, stepIndex,
                    stepErrors, attempts, calls, outcomes, result, wire,
                    requestID, cancelled, spans, logs >>
    /\ UNCHANGED fixedVars

\* The client goes away while a step's upstream call is in flight: the
\* context of the inbound request is cancelled.  Call builds its request
\* with http.NewRequest, without a context, and the loop never looks at
\* ctx, so nothing else changes.
ClientDisconnect ==
    /\ pc = "inflight"
    /\ cancelled = -1
    /\ cancelled' = stepIndex
    /\ UNCHANGED << providers, routes, inbound, request, pc, route, stepIndex,
                    stepErrors, attempts, calls, outcomes, result, wire,
                    requestID, spans, logs, status, errorDoc >>
    /\ UNCHANGED fixedVars

Next ==
    \/ ParseRequest
    \/ ResolveRoute
    \/ StepBegin
    \/ UpstreamReply
    \/ WriteResponse
    \/ WriteError

Spec == Init /\ [][Next]_vars

\* One request on the fixed routes, with either request id: the Manager as
\* Execute and ExecuteWithTracing are called on it.
InitManager ==
    /\ \E d \in 1..Len(RequestDocs), rid \in RequestIDs : Setup(<< >>, d, "", rid)
    /\ Idle

SpecManager == InitManager /\ [][Next]_vars

\* The same, with a client that may go away during an upstream call.
NextCancel ==
    \/ ParseRequest
    \/ ResolveRoute
    \/ StepBegin
    \/ UpstreamReply
    \/ WriteResponse
    \/ WriteError
    \/ ClientDisconnect

SpecCancel == InitManager /\ [][NextCancel]_vars

(***************************************************************************)
(* Concurrent executions on one Manager.  Each call of ExecuteWithTracing  *)
(* has its own parameters and locals (request, route, stepIndex,           *)
(* stepErrors); the Manager's providers and routes are what the calls      *)
(* share.  An execution is a record of its locals, and the steps of the    *)
(* calls interleave.                                                       *)
(***************************************************************************)
Executions == {1, 2}

\* The request documents and the replies of the concurrent executions.
ConcurrentDocs == {3, 4, 5, 10}

ConcurrentReplies == {1, 3, 5}

\* A call of ExecuteWithTracing that is about to start, with its request.
ExecStart(d) ==
    [doc |-> d, request |-> ChatRequestUnmarshalJSON(RequestDocs[d]).req,
     pc |-> "execute", route |-> NoRoute, stepIndex |-> 0, stepErrors |-> << >>,
     sent |-> << >>, fed |-> << >>, result |-> NoResult]

\* The route lookup of the call.
ExecResolve(x) ==
    LET g == GetRoute(routes, x.request.Model)
    IN  IF ~g.found
        THEN [x EXCEPT !.pc = "done",
                       !.result = [NoResult EXCEPT !.kind = "route_not_found",
                                                   !.model = g.model]]
        ELSE [x EXCEPT !.pc = "loop", !.route = g.route]

\* One pass of the loop of the call up to client.Do.
ExecStepBegin(x) ==
    IF x.stepIndex >= Len(x.route.Steps)
    THEN [x EXCEPT !.pc = "done",
                   !.result = [NoResult EXCEPT !.kind = "route_error",
                                               !.Route = x.route,
                                               !.Errors = x.stepErrors]]
    ELSE LET step == x.route.Steps[x.stepIndex + 1]
         IN  IF step.Provider \notin DOMAIN providers
             THEN [x EXCEPT !.pc = "done",
                            !.result = [NoResult EXCEPT
                                           !.kind = "provider_not_found",
                                           !.Route = x.route, !.step = x.stepIndex,
                                           !.provider = step.Provider]]
             ELSE LET c == NewClientWithRouteStep(providers[step.Provider], step)
                      p == CallPrepare(c, x.request)
                  IN  IF p.err # ""
                      THEN [x EXCEPT !.stepErrors =
                                         Append(@, RouteStepError(x.stepIndex, step,
                                                                  p.err)),
                                     !.stepIndex = @ + 1]
                      ELSE [x EXCEPT !.pc = "inflight",
                                     !.sent = Append(@, [step |-> x.stepIndex,
                                                         url  |-> p.http[1].url])]

\* client.Do returns in the call, and its loop takes the outcome.
ExecReply(x, reply) ==
    LET f    == CallFinish(reply)
        step == x.route.Steps[x.stepIndex + 1]
    IN  IF f.err # ""
        THEN [x EXCEPT !.fed = Append(@, reply),
                       !.stepErrors = Append(@, RouteStepError(x.stepIndex, step,
                                                               f.err)),
                       !.stepIndex = @ + 1,
                       !.pc = "loop"]
        ELSE [x EXCEPT !.fed = Append(@, reply),
                       !.pc = "done",
                       !.result = [NoResult EXCEPT !.kind = "response",
                                                   !.response = f.resp]]

\* The call run by itself, from where it stands, on the replies given.
RECURSIVE ExecuteAlone(_, _)
ExecuteAlone(x, replies) ==
    IF x.pc = "execute" THEN ExecuteAlone(ExecResolve(x), replies)
    ELSE IF x.pc = "loop" THEN ExecuteAlone(ExecStepBegin(x), replies)
    ELSE IF x.pc = "inflight" /\ replies # << >>
    THEN ExecuteAlone(ExecReply(x, Head(replies)), Tail(replies))
    ELSE x

\* A Manager that keeps the step errors in a field of its own, which every
\* call appends to.
MutantManagerStepErrors(xs, e) ==
    LET all == { i \in DOMAIN xs : xs[i].stepErrors # << >> }
    IN  IF all = {} THEN << >>
        ELSE xs[CHOOSE i \in all :
                   \A j \in all : Len(xs[j].stepErrors) <= Len(xs[i].stepErrors)
               ].stepErrors

\* var stepErrors []types.RouteStepError: the list call e appends to is a
\* local of call e.
OwnStepErrors(xs, e) == xs[e].stepErrors

\* Call e with the step errors it sees.
Mine(e) == [execs[e] EXCEPT !.stepErrors = OwnStepErrors(execs, e)]

ConcurrentResolve ==
    /\ \E e \in DOMAIN execs :
          /\ execs[e].pc = "execute"
          /\ execs' = [execs EXCEPT ![e] = ExecResolve(Mine(e))]
    /\ UNCHANGED << providers, routes, config, candidate, verdict >>
    /\ UNCHANGED << arrival, served, input, output >>
    /\ UNCHANGED handlerVars

ConcurrentStepBegin ==
    /\ \E e \in DOMAIN execs :
          /\ execs[e].pc = "loop"
          /\ execs' = [execs EXCEPT ![e] = ExecStepBegin(Mine(e))]
    /\ UNCHANGED << providers, routes, config, candidate, verdict >>
    /\ UNCHANGED << arrival, served, input, output >>
    /\ UNCHANGED handlerVars

ConcurrentReply ==
    /\ \E e \in DOMAIN execs, r \in ConcurrentReplies :
          /\ execs[e].pc = "inflight"
          /\ execs' = [execs EXCEPT ![e] = ExecReply(Mine(e), Replies[r])]
    /\ UNCHANGED << providers, routes, config, candidate, verdict >>
    /\ UNCHANGED << arrival, served, input, output >>
    /\ UNCHANGED handlerVars

\* Two calls of ExecuteWithTracing on one Manager; the handler's own
\* execution stays where it is.
InitConcurrent ==
    /\ Setup(<< >>, 1, "", "")
    /\ execs \in [Executions -> { ExecStart(d) : d \in ConcurrentDocs }]
    /\ candidate = << >>
    /\ verdict = << >>

NextConcurrent ==
    \/ ConcurrentResolve
    \/ ConcurrentStepBegin
    \/ ConcurrentReply

SpecConcurrent == InitConcurrent /\ [][NextConcurrent]_vars

(***************************************************************************)
(* Configuration validation                                                *)
(***************************************************************************)
\* nil, and fmt.Errorf(format, args...).
NoConfigError == [failed |-> FALSE, format |-> "", args |-> << >>]

ConfigError(format, args) == [failed |-> TRUE, format |-> format, args |-> args]

\* The error a loop over checks returns: that of the first check that
\* fails, nil when none does.
FirstError(checks) ==
    LET bad == { i \in 1..Len(checks) : checks[i].failed }
    IN  IF bad = {} THEN NoConfigError
        ELSE checks[CHOOSE i \in bad : \A j \in bad : i <= j]

\* The body of the loop over cfg.Providers; i counts from 0.
ProviderCheck(provider, i) ==
    IF Blank(provider.Name)
    THEN ConfigError("provider[%d]: name is required", << i >>)
    ELSE IF Blank(provider.APIKey)
    THEN ConfigError("provider[%d] (%s): api_key is required",
                     << i, provider.Name >>)
    ELSE IF Blank(provider.BaseURL)
    THEN ConfigError("provider[%d] (%s): base_url is required",
                     << i, provider.Name >>)
    ELSE NoConfigError

\* The body of the loop over route.Steps without the provider reference
\* check.
MutantStepCheckAnyProvider(providerNames, r, i, step, j) ==
    IF Blank(step.Provider)
    THEN ConfigError("route[%d] (%s) step[%d]: provider is required",
                     << i, r.Name, j >>)
    ELSE IF Blank(step.Model)
    THEN ConfigError("route[%d] (%s) step[%d]: model is required",
                     << i, r.Name, j >>)
    ELSE IF step.Timeout # "" /\ step.Timeout \notin ValidDurations
    THEN ConfigError("route[%d] (%s) step[%d]: invalid timeout format: %w",
                     << i, r.Name, j, step.Timeout >>)
    ELSE IF step.ConflictResolution # ""
            /\ step.ConflictResolution # "tools"
            /\ step.ConflictResolution # "format"
    THEN ConfigError("route[%d] (%s) step[%d]: conflict_resolution must be 'tools' or 'format', got '%s'",
                     << i, r.Name, j, step.ConflictResolution >>)
    ELSE NoConfigError

\* The body of the loop over route.Steps; i and j count from 0, and
\* providerNames is the set of keys of the map of that name.
StepCheck(providerNames, r, i, step, j) ==
    IF Blank(step.Provider)
    THEN ConfigError("route[%d] (%s) step[%d]: provider is required",
                     << i, r.Name, j >>)
    ELSE IF Blank(step.Model)
    THEN ConfigError("route[%d] (%s) step[%d]: model is required",
                     << i, r.Name, j >>)
    ELSE IF step.Provider \notin providerNames
    THEN ConfigError("route[%d] (%s) step[%d]: provider '%s' not found in providers list",
                     << i, r.Name, j, step.Provider >>)
    ELSE IF step.Timeout # "" /\ step.Timeout \notin ValidDurations
    THEN ConfigError("route[%d] (%s) step[%d]: invalid timeout format: %w",
                     << i, r.Name, j, step.Timeout >>)
    ELSE IF step.ConflictResolution # ""
            /\ step.ConflictResolution # "tools"
            /\ step.ConflictResolution # "format"
    THEN ConfigError("route[%d] (%s) step[%d]: conflict_resolution must be 'tools' or 'format', got '%s'",
                     << i, r.Name, j, step.ConflictResolution >>)
    ELSE NoConfigError

\* The body of the loop over cfg.Routes.
RouteCheck(providerNames, r, i) ==
    IF Blank(r.Name)
    THEN ConfigError("route[%d]: name is required", << i >>)
    ELSE IF Len(r.Steps) = 0
    THEN ConfigError("route[%d] (%s): at least one step must be configured",
                     << i, r.Name >>)
    ELSE FirstError(AsSeq([j \in 1..Len(r.Steps) |->
                       StepCheck(providerNames, r, i, r.Steps[j], j - 1)]))

validateConfig(cfg) ==
    IF cfg.APIKey = ""
    THEN ConfigError("api_key is required", << >>)
    ELSE IF Len(cfg.Providers) = 0
    THEN ConfigError("at least one provider must be configured", << >>)
    ELSE LET providerNames ==
                 { cfg.Providers[i].Name : i \in 1..Len(cfg.Providers) }
             provider ==
                 FirstError(AsSeq([i \in 1..Len(cfg.Providers) |->
                               ProviderCheck(cfg.Providers[i], i - 1)]))
         IN  IF provider.failed THEN provider
             ELSE FirstError(AsSeq([i \in 1..Len(cfg.Routes) |->
                                RouteCheck(providerNames, cfg.Routes[i],
                                           i - 1)]))

\* The configurations handed to validateConfig.  Gateway keys: none, a
\* blank one, a usual one.
CandidateKeys == {"", " ", GatewayAPIKey}

\* default_timeout as LoadConfig leaves it, and one that is no duration.
CandidateDefaultTimeouts == {"30s", "soon"}

\* Provider lists: none; one; two; one with a blank name; one without a
\* key; one with a blank base URL; two of one name.
CandidateProviders ==
    { << >>,
      << ProviderList[2] >>,
      << ProviderList[2], ProviderList[3] >>,
      << ProviderList[2], [Name |-> " ", APIKey |-> "key2",
                           BaseURL |-> "http://two"] >>,
      << [Name |-> "p1", APIKey |-> "", BaseURL |-> "http://one"] >>,
      << ProviderList[2], [Name |-> "p2", APIKey |-> "key2",
                           BaseURL |-> " "] >>,
      << ProviderList[1], ProviderList[2] >> }

ConfigStep(provider, model, timeout, conflictResolution) ==
    [Provider |-> provider, Model |-> model, Timeout |-> timeout,
     ConflictResolution |-> conflictResolution]

\* Routes: two good ones of one name, the second through provider p2; then
\* one fault each: a blank name, no steps, a blank provider, no model, a
\* provider nobody configured, a provider named in another case, a timeout
\* that is no duration, a blank timeout, a directive that is neither.
CandidateRoutePool ==
    << [Name |-> "m1", Steps |-> << StepPool[1] >>],
       [Name |-> "m1", Steps |-> << StepPool[2], StepPool[3] >>],
       [Name |-> " ",  Steps |-> << StepPool[1] >>],
       [Name |-> "m2", Steps |-> << >>],
       [Name |-> "m2", Steps |-> << ConfigStep(" ", "m1", "", "") >>],
       [Name |-> "m2", Steps |-> << StepPool[1],
                                    ConfigStep("p1", "", "", "") >>],
       [Name |-> "m2", Steps |-> << StepPool[4] >>],
       [Name |-> "m2", Steps |-> << ConfigStep("P1", "m1", "", "") >>],
       [Name |-> "m2", Steps |-> << ConfigStep("p1", "m1", "soon", "") >>],
       [Name |-> "m2", Steps |-> << ConfigStep("p1", "m1", " ", "tools") >>],
       [Name |-> "m2", Steps |-> << StepPool[3],
                                    ConfigStep("p1", "m1", "30s", "both") >>] >>

\* Route lists: up to two routes of the pool, in any order, one twice too.
CandidateRoutes ==
    { AsSeq([i \in 1..Len(pick) |-> CandidateRoutePool[pick[i]]]) :
        pick \in UNION { [1..n -> 1..Len(CandidateRoutePool)] : n \in 0..2 } }

Candidates ==
    [APIKey : CandidateKeys, DefaultTimeout : CandidateDefaultTimeouts,
     Providers : CandidateProviders, Routes : CandidateRoutes]

\* LoadConfig hands the configuration it parsed to validateConfig.
ValidateConfig ==
    /\ verdict = << >>
    /\ verdict' = << validateConfig(candidate) >>
    /\ UNCHANGED << providers, routes, config, execs, candidate >>
    /\ UNCHANGED << arrival, served, input, output >>
    /\ UNCHANGED handlerVars

\* A configuration about to be validated; the gateway itself stays where
\* it is.
InitConfig ==
    /\ Setup(<< >>, 1, "", "")
    /\ execs = << >>
    /\ candidate \in Candidates
    /\ verdict = << >>

NextConfig == ValidateConfig

SpecConfig == InitConfig /\ [][NextConfig]_vars

(***************************************************************************)
(* The HTTP boundary: the mux and the authentication middleware            *)
(***************************************************************************)
\* strings.HasPrefix and strings.TrimPrefix over pieces.
HasPrefix(v, prefix) ==
    /\ Len(v) >= Len(prefix)
    /\ SubSeq(v, 1, Len(prefix)) = prefix

TrimPrefix(v, prefix) ==
    IF HasPrefix(v, prefix) THEN SubSeq(v, Len(prefix) + 1, Len(v)) ELSE v

Bearer == << "Bearer", " " >>

\* What the function authMiddleware returns does with r: it calls next or
\* answers Unauthorized.
authMiddleware(cfg, r) ==
    IF r.Path = HealthPath THEN "next"
    ELSE LET authHeader == r.Authorization
             apiKey ==
                 IF r.XApiKey # << >> THEN r.XApiKey
                 ELSE IF HasPrefix(authHeader, Bearer)
                      THEN TrimPrefix(authHeader, Bearer)
                      ELSE << >>
         IN  IF apiKey = << >> \/ apiKey # Pieces(cfg.APIKey)
             THEN "Unauthorized"
             ELSE "next"

\* The patterns of the mux: the handler of a path, and whether the
\* middleware stands before it.  Another path gets the mux's own 404.
setupRoutes(path) ==
    CASE path = HealthPath -> [handler |-> "handleHealth", protected |-> FALSE]
      [] path = ModelsPath -> [handler |-> "handleModels", protected |-> TRUE]
      [] path = ChatPath ->
            [handler |-> "handleChatCompletions", protected |-> TRUE]
      [] OTHER -> [handler |-> "NotFound", protected |-> FALSE]

ModelCreated == 1677610602

\* The bodies handleHealth and handleModels write.
handleHealth ==
    [doc |-> Text(FALSE, LObj(<< Mem("status", LStr("healthy")) >>)),
     newline |-> TRUE]

handleModels(rs) ==
    [doc |-> Text(FALSE,
                  LObj(<< Mem("object", LStr("list")),
                          Mem("data",
                              IF Len(rs) = 0 THEN LNull
                              ELSE LArr(AsSeq([i \in 1..Len(rs) |->
                                      LObj(<< Mem("id", LStr(rs[i].Name)),
                                              Mem("object", LStr("model")),
                                              Mem("created",
                                                  LInt(ModelCreated \div Limb,
                                                       ModelCreated % Limb)),
                                              Mem("owned_by",
                                                  LStr("ai-gateway")) >>)]))) >>)),
     newline |-> TRUE]

\* The requests that arrive.  X-Api-Key: none, the key, another key.
\* Authorization: none; the key, another key and nothing as a bearer
\* token; the key under a scheme in lower case, under another scheme and
\* without a scheme.
ArrivalPaths == {HealthPath, ModelsPath, ChatPath, "/v1/embeddings"}

ArrivalKeys == { << >>, Pieces(GatewayAPIKey), << "wrong" >> }

ArrivalAuthorizations ==
    { << >>,
      << "Bearer", " ", GatewayAPIKey >>,
      << "Bearer", " ", "wrong" >>,
      << "Bearer", " " >>,
      << "bearer", " ", GatewayAPIKey >>,
      << "Basic", " ", GatewayAPIKey >>,
      << GatewayAPIKey >> }

Arrivals ==
    [Path : ArrivalPaths, XApiKey : ArrivalKeys,
     Authorization : ArrivalAuthorizations]

\* The mux takes the request to its pattern; the middleware, where there
\* is one, lets it through to the handler or answers 401.  handleHealth
\* and handleModels answer at once; handleChatCompletions starts.
ServeHTTP ==
    /\ pc = "serve"
    /\ LET to   == setupRoutes(arrival.Path)
           auth == IF to.protected THEN authMiddleware(config, arrival)
                   ELSE "next"
       IN  IF to.handler = "NotFound"
           THEN /\ served' = ""
                /\ status' = StatusNotFound
                /\ pc' = "served"
                /\ wire' = wire
           ELSE IF auth = "Unauthorized"
           THEN /\ served' = ""
                /\ status' = StatusUnauthorized
                /\ pc' = "served"
                /\ wire' = wire
           ELSE /\ served' = to.handler
                /\ IF to.handler = "handleChatCompletions"
                   THEN /\ pc' = "parse"
                        /\ status' = status
                        /\ wire' = wire
                   ELSE /\ pc' = "served"
                        /\ status' = StatusOK
                        /\ wire' = IF to.handler = "handleHealth"
                                   THEN handleHealth
                                   ELSE handleModels(routes)
    /\ UNCHANGED << providers, routes, inbound, request, route, stepIndex,
                    stepErrors, attempts, calls, outcomes, result, requestID,
                    cancelled, spans, logs, errorDoc >>
    /\ UNCHANGED << config, execs, candidate, verdict, arrival, input, output >>

\* The bodies that arrive: for the route of three steps, for no route, no
\* JSON, and one without messages.
ServerDocs == {4, 5, 8, 11}

\* The server with a request at the mux.
InitServer ==
    /\ config = LoadConfig(GatewayAPIKey, "")
    /\ providers = NewManagerProviders(ProviderList)
    /\ routes = RouteList(<< >>)
    /\ \E d \in ServerDocs : Fresh(d, "4f1c2a9be07d3356")
    /\ pc = "serve"
    /\ arrival \in Arrivals
    /\ served = ""
    /\ NoValue
    /\ Idle

NextServer ==
    \/ ServeHTTP
    \/ ParseRequest
    \/ ResolveRoute
    \/ StepBegin
    \/ UpstreamReply
    \/ WriteResponse
    \/ WriteError

SpecServer == InitServer /\ [][NextServer]_vars

(***************************************************************************)
(* Functions of types and logger applied to values                         *)
(***************************************************************************)
\* The gateway at rest beside the function that is applied.
Parked ==
    /\ config = LoadConfig(GatewayAPIKey, "")
    /\ providers = NewManagerProviders(ProviderList)
    /\ routes = RouteList(<< >>)
    /\ Fresh(1, "")
    /\ pc = "parse"
    /\ Admitted
    /\ Idle

\* Strings around the limit, in characters of one, two and four bytes: 5,
\* 100, 101 and 150 bytes of one-byte characters; none; 100, 120 and 202
\* bytes of two-byte characters; 101 bytes with the cut inside a two-byte
\* character; 104 bytes of four-byte characters; 102 bytes with the cut
\* inside a four-byte character.
LongStrings ==
    << << Run("a", 1, 5) >>,
       << Run("a", 1, 100) >>,
       << Run("a", 1, 101) >>,
       << Run("a", 1, 60), Run("b", 1, 90) >>,
       << >>,
       << Run("e'", 2, 50) >>,
       << Run("e'", 2, 60) >>,
       << Run("e'", 2, 101) >>,
       << Run("a", 1, 1), Run("e'", 2, 50) >>,
       << Run(":)", 4, 26) >>,
       << Run("a", 1, 2), Run(":)", 4, 25) >> >>

TextBlock(str) == LObj(<< Mem("type", LStr("text")), Mem("text", LBytes(str)) >>)

ImageBlock ==
    LObj(<< Mem("type", LStr("image_url")),
            Mem("image_url", LBytes(<< Run("u", 1, 120) >>)) >>)

\* Contents: each string; each string as the one text block of an array;
\* arrays of several blocks, of a block that is no text block, of a text
\* block whose text is a number, of no block, of a number; and contents
\* that are neither string nor array.
Contents ==
    AsSeq([i \in 1..Len(LongStrings) |-> LBytes(LongStrings[i])])
    \o AsSeq([i \in 1..Len(LongStrings) |->
                 LArr(<< TextBlock(LongStrings[i]) >>)])
    \o << LArr(<< ImageBlock, TextBlock(LongStrings[3]),
                  TextBlock(LongStrings[1]) >>),
          LArr(<< ImageBlock >>),
          LArr(<< LObj(<< Mem("type", LStr("text")),
                          Mem("text", LInt(0, 7)) >>) >>),
          LArr(<< >>),
          LArr(<< LInt(0, 7) >>),
          LNull,
          LInt(0, 7),
          LBool(TRUE),
          LStr("Hello"),
          LObj(<< Mem("text", LBytes(LongStrings[3])) >>) >>

MessageLit(role, content) ==
    LObj(<< Mem("role", LStr(role)), Mem("content", content) >>)

\* Requests: one message of each content; two messages, a long one before
\* a short one; and documents whose messages are not what they should be.
TruncateRequests ==
    { [Raw |-> Text(FALSE, LObj(<< Mem("model", LStr("m1")),
                                   Mem("messages",
                                       LArr(<< MessageLit("user", Contents[i]) >>)) >>)),
       Model |-> "m1"] : i \in 1..Len(Contents) }
    \cup
    { [Raw |-> Text(TRUE, LObj(<< Mem("messages",
                                      LArr(<< MessageLit("user", Contents[3]),
                                              MessageLit("assistant", Contents[1]) >>)),
                                  Mem("model", LStr("m1")) >>)),
       Model |-> "m1"],
      [Raw |-> NoText, Model |-> "m1"],
      [Raw |-> Text(FALSE, LNull), Model |-> ""],
      [Raw |-> Text(FALSE, LObj(<< Mem("model", LStr("m1")) >>)), Model |-> "m1"],
      [Raw |-> Text(FALSE, LObj(<< Mem("model", LStr("m1")),
                                   Mem("messages", LBytes(LongStrings[3])) >>)),
       Model |-> "m1"],
      [Raw |-> Text(FALSE, LObj(<< Mem("model", LStr("m1")),
                                   Mem("messages",
                                       LArr(<< LInt(0, 7),
                                               MessageLit("user", Contents[3]) >>)) >>)),
       Model |-> "m1"] }

ChoiceLit(index, content) ==
    LObj(<< Mem("index", LInt(0, index)),
            Mem("message", MessageLit("assistant", content)),
            Mem("finish_reason", LStr("stop")) >>)

ResponseOf(text) == ChatResponseUnmarshalJSON(text).resp

TruncateResponses ==
    { ResponseOf(Text(FALSE, LObj(<< Mem("id", LStr("r1")),
                                     Mem("choices",
                                         LArr(<< ChoiceLit(0, Contents[i]) >>)) >>))) :
        i \in 1..Len(Contents) }
    \cup
    { ResponseOf(Text(TRUE, LObj(<< Mem("choices",
                                        LArr(<< ChoiceLit(0, Contents[3]),
                                                ChoiceLit(1, Contents[1]) >>)),
                                    Mem("id", LStr("r1")) >>))),
      NoResponse,
      ResponseOf(Text(FALSE, LNull)),
      ResponseOf(Text(FALSE, LObj(<< Mem("id", LStr("r1")) >>))),
      ResponseOf(Text(FALSE, LObj(<< Mem("id", LStr("r1")),
                                     Mem("choices",
                                         LArr(<< LInt(0, 7),
                                                 LObj(<< Mem("message", LInt(0, 7)) >>),
                                                 ChoiceLit(2, Contents[3]) >>)) >>))) }

TruncateInputs ==
    { [kind |-> "request", obj |-> r] : r \in TruncateRequests }
    \cup { [kind |-> "response", obj |-> r] : r \in TruncateResponses }

\* req.TruncateRequestForLogging(): what it returns, and the receiver as
\* the call leaves it.
LogRequest ==
    /\ output = << >>
    /\ input.kind = "request"
    /\ output' = << [projection |-> TruncateRequestForLogging(input.obj),
                     receiver   |-> input.obj] >>
    /\ UNCHANGED << providers, routes, config, execs, candidate, verdict,
                    arrival, served, input >>
    /\ UNCHANGED handlerVars

\* resp.TruncateResponseForLogging()
LogResponse ==
    /\ output = << >>
    /\ input.kind = "response"
    /\ output' = << [projection |-> TruncateResponseForLogging(input.obj),
                     receiver   |-> input.obj] >>
    /\ UNCHANGED << providers, routes, config, execs, candidate, verdict,
                    arrival, served, input >>
    /\ UNCHANGED handlerVars

InitTruncate ==
    /\ Parked
    /\ input \in TruncateInputs
    /\ output = << >>

NextTruncate ==
    \/ LogRequest
    \/ LogResponse

SpecTruncate == InitTruncate /\ [][NextTruncate]_vars

\* RouteErrors: a route of the list with up to three step errors, which
\* need not be those of its steps.
StepErrorPool ==
    << [StepIndex |-> 0, Provider |-> "p1", Model |-> "m1",
        Error |-> "failed to send request"],
       [StepIndex |-> 1, Provider |-> "p2", Model |-> "m2",
        Error |-> "provider returned error"],
       [StepIndex |-> 2, Provider |-> "p1", Model |-> "m3",
        Error |-> "failed to parse response"],
       [StepIndex |-> 0, Provider |-> "pbad", Model |-> "m5",
        Error |-> "failed to create request"] >>

RouteErrors ==
    { [Route  |-> RouteList(<< >>)[r],
       Errors |-> AsSeq([i \in 1..Len(pick) |-> StepErrorPool[pick[i]]])] :
        r \in {1, 4},
        pick \in UNION { [1..n -> 1..Len(StepErrorPool)] : n \in 0..3 } }

\* err.Error() on a RouteError: the text, and the RouteError after it.
RouteErrorText ==
    /\ output = << >>
    /\ output' = << [text |-> RouteErrorError(input), receiver |-> input] >>
    /\ UNCHANGED << providers, routes, config, execs, candidate, verdict,
                    arrival, served, input >>
    /\ UNCHANGED handlerVars

InitRouteError ==
    /\ Parked
    /\ input \in RouteErrors
    /\ output = << >>

NextRouteError == RouteErrorText

SpecRouteError == InitRouteError /\ [][NextRouteError]_vars

\* Messages: every role of the model with every content: strings, arrays
\* (of no element, of a text block, of numbers), a number, an object, null,
\* true, false, and no content.
MessageContents ==
    { << >>,
      << LStr("Hello") >>,
      << LStr("") >>,
      << LStr(" ") >>,
      << LArr(<< >>) >>,
      << LArr(<< LObj(<< Mem("type", LStr("text")), Mem("text", LStr("Hello")) >>) >>) >>,
      << LArr(<< LInt(0, 1), LInt(0, 2) >>) >>,
      << LInt(0, 7) >>,
      << LObj(<< Mem("text", LStr("Hello")) >>) >>,
      << LObj(<< >>) >>,
      << LNull >>,
      << LBool(TRUE) >>,
      << LBool(FALSE) >> }

MessageInputs ==
    [Role : {"", "user", "assistant", "system", "tool"}, Content : MessageContents]

\* The accessors of a message, as the loop of validateChatRequest calls
\* them, and the message after the calls.
InspectContent ==
    /\ output = << >>
    /\ output' = << [IsContentString |-> IsContentString(input),
                     IsContentArray  |-> IsContentArray(input),
                     ContentAsString |-> ContentAsString(input),
                     ContentAsArray  |-> ContentAsArray(input),
                     receiver        |-> input] >>
    /\ UNCHANGED << providers, routes, config, execs, candidate, verdict,
                    arrival, served, input >>
    /\ UNCHANGED handlerVars

InitMessage ==
    /\ Parked
    /\ input \in MessageInputs
    /\ output = << >>

NextMessage == InspectContent

SpecMessage == InitMessage /\ [][NextMessage]_vars

(***************************************************************************)
(* logger.Logger and telemetry.RecordLog                                   *)
(***************************************************************************)
\* A field key is the sequence of its pieces, so that what it contains can
\* be computed.  strings.ToLower on a piece:
ToLowerPiece(w) ==
    CASE w = "API_KEY" -> "api_key"
      [] w = "ApiKey" -> "apikey"
      [] w = "Token" -> "token"
      [] w = "SECRET" -> "secret"
      [] w = "Request" -> "request"
      [] OTHER -> w

ToLower(key) == AsSeq([i \in 1..Len(key) |-> ToLowerPiece(key[i])])

\* strings.Contains(key, w) for w one of the words the keys are cut at.
Contains(key, w) == \E i \in 1..Len(key) : key[i] = w

Redacted == GoStr("[REDACTED]")

\* fmt.Sprint(value): a string as it is, another value formatted.
Sprint(value) ==
    IF value.t = "str" THEN value ELSE [t |-> "str", s |-> "%v", of |-> value]

\* The summary of a request or response map: its model and the number of
\* its messages.
Summary(m) ==
    [k \in ({"model"} \cap DOMAIN m)
           \cup (IF "messages" \in DOMAIN m /\ m["messages"].t = "arr"
                 THEN {"message_count"} ELSE {}) |->
        IF k = "model" THEN m["model"]
        ELSE GoNum([hi |-> 0, lo |-> Len(m["messages"].a)])]

\* Logger.redactSensitiveData on fields that are not nil.
redactSensitiveData(fields) ==
    [k \in DOMAIN fields |->
        LET keyLower == ToLower(k)
        IN  IF \/ Contains(keyLower, "api_key")
               \/ Contains(keyLower, "apikey")
               \/ Contains(keyLower, "token")
               \/ Contains(keyLower, "secret")
            THEN Redacted
            ELSE IF keyLower \in {<< "request" >>, << "response" >>}
                    /\ fields[k].t = "obj"
            THEN GoMap(Summary(fields[k].m))
            ELSE fields[k]]

\* Logger.log: the entry it writes as a line.  Nil fields and fields of no
\* key leave the entry without fields.
LoggerLog(level, message, fields) ==
    [level |-> level, message |-> message,
     fields |-> IF fields.isNil \/ DOMAIN redactSensitiveData(fields.m) = {}
                THEN << >>
                ELSE << redactSensitiveData(fields.m) >>]

\* telemetry.RecordLog: the event it adds, with the level and one
\* attribute for each field that has a key and a value.
RecordLog(level, message, fields) ==
    LET m    == IF fields.isNil THEN << >> ELSE fields.m
        keys == { k \in DOMAIN m : k # << >> /\ m[k].t # "null" }
    IN  [message |-> message,
         attrs   |-> [k \in keys \cup {<< "log.level" >>} |->
                         IF k = << "log.level" >> THEN GoStr(level)
                         ELSE Sprint(m[k])]]

\* Logger.Info: the line, the event, and the map of the caller after it.
LoggerInfo(message, fields) ==
    [line   |-> LoggerLog("INFO", message, fields),
     event  |-> RecordLog("info", message, fields),
     fields |-> fields]

\* Logger.Error: nil fields become a map, and the error is written into the
\* map under "error" before it is logged.
LoggerError(message, err, fields) ==
    LET m0 == IF fields.isNil THEN << >> ELSE fields.m
        m1 == IF err = << >> THEN m0
              ELSE [k \in DOMAIN m0 \cup {<< "error" >>} |->
                       IF k = << "error" >> THEN GoStr(err[1]) ELSE m0[k]]
        fs == [isNil |-> FALSE, m |-> m1]
    IN  [line   |-> LoggerLog("ERROR", message, fs),
         event  |-> RecordLog("error", message, fs),
         fields |-> IF fields.isNil THEN fields ELSE fs]

\* The keys of the fields: five that name a key, a token or a secret in
\* one case or another, one that spells api-key with hyphens, the summary
\* key, two plain ones and the empty key.
FieldKeys ==
    { << "api_key" >>, << "provider_", "API_KEY" >>, << "ApiKey" >>,
      << "access_", "token" >>, << "client_", "SECRET" >>, << "x-api-key" >>,
      << "Request" >>, << "model" >>, << "step_index" >>, << >> }

\* The values a field of key k may have.
FieldValues(k) ==
    IF k = << "Request" >>
    THEN { GoMap([x \in {"model", "messages"} |->
                    IF x = "model" THEN GoStr("m1")
                    ELSE GoArr(<< GoStr("Hello"), GoStr("Hi") >>)]),
           GoStr("m1") }
    ELSE IF k = << "step_index" >> THEN { GoNum([hi |-> 0, lo |-> 1]) }
    ELSE IF k = << "model" >> THEN { GoStr("m1") }
    ELSE { GoStr("sk-live-1"), GoNil }

\* Field maps of up to two keys, and the nil map.
FieldMaps ==
    { [isNil |-> TRUE, m |-> << >>] }
    \cup { [isNil |-> FALSE, m |-> m] :
             m \in UNION { { f \in [ks -> UNION { FieldValues(k) : k \in ks }] :
                               \A k \in ks : f[k] \in FieldValues(k) } :
                           ks \in { x \in SUBSET FieldKeys : Cardinality(x) <= 2 } } }

LogInputs ==
    [call : {"Info"}, message : {"Chat completion request"}, err : {<< >>},
     fields : FieldMaps]
    \cup [call : {"Error"}, message : {"Request execution failed"},
          err : {<< >>, << "token expired" >>}, fields : FieldMaps]

LogInfo ==
    /\ output = << >>
    /\ input.call = "Info"
    /\ output' = << LoggerInfo(input.message, input.fields) >>
    /\ UNCHANGED << providers, routes, config, execs, candidate, verdict,
                    arrival, served, input >>
    /\ UNCHANGED handlerVars

LogError ==
    /\ output = << >>
    /\ input.call = "Error"
    /\ output' = << LoggerError(input.message, input.err, input.fields) >>
    /\ UNCHANGED << providers, routes, config, execs, candidate, verdict,
                    arrival, served, input >>
    /\ UNCHANGED handlerVars

InitLogger ==
    /\ Parked
    /\ input \in LogInputs
    /\ output = << >>

NextLogger ==
    \/ LogInfo
    \/ LogError

SpecLogger == InitLogger /\ [][NextLogger]_vars

(***************************************************************************)
(* main: the configuration is loaded and validated, the Manager is built   *)
(* from its providers and routes, and the server handles a request.        *)
(***************************************************************************)
\* The inbound documents main's server is sent: one for route "m1", one for
\* a model no candidate routes, one for route "m2".
MainDocs == {4, 5, 10}

\* main: LoadConfig returns the error of validateConfig and main ends with
\* log.Fatalf, or it returns the configuration and NewManager takes its
\* providers and routes.
Main ==
    /\ pc = "load"
    /\ verdict' = << validateConfig(candidate) >>
    /\ IF validateConfig(candidate).failed
       THEN /\ pc' = "fatal"
            /\ UNCHANGED << providers, routes >>
       ELSE /\ pc' = "parse"
            /\ providers' = NewManagerProviders(candidate.Providers)
            /\ routes' = candidate.Routes
    /\ UNCHANGED << inbound, request, route, stepIndex, stepErrors, attempts,
                    calls, outcomes, result, wire, requestID, cancelled,
                    spans, logs, status, errorDoc >>
    /\ UNCHANGED << config, execs, candidate, arrival, served, input, output >>

\* The process before main has run: a configuration file, no Manager yet.
InitMain ==
    /\ candidate \in Candidates
    /\ config = LoadConfig(candidate.APIKey, candidate.DefaultTimeout)
    /\ providers = NewManagerProviders(<< >>)
    /\ routes = << >>
    /\ \E d \in MainDocs : Fresh(d, "4f1c2a9be07d3356")
    /\ pc = "load"
    /\ Admitted
    /\ NoValue
    /\ execs = << >>
    /\ verdict = << >>

NextMain ==
    \/ Main
    \/ ParseRequest
    \/ ResolveRoute
    \/ StepBegin
    \/ UpstreamReply
    \/ WriteResponse
    \/ WriteError

SpecMain == InitMain /\ [][NextMain]_vars


(***************************************************************************)
(* Vocabulary of the properties                                            *)
(***************************************************************************)
\* The execution got past the route lookup.
Resolved ==
    \/ pc \in {"loop", "inflight"}
    \/ pc \in {"done", "written"}
         /\ result.kind \in {"response", "route_error", "provider_not_found"}

Finished == pc \in {"done", "written"}

\* The request as the caller decoded it.
Original == ChatRequestUnmarshalJSON(inbound).req

\* Attempt a (an entry of attempts) is known to have failed, and with what.
Sent(a) == \E j \in 1..Len(calls) : calls[j].step = a.step

Answered(a) == \E j \in 1..Len(outcomes) : outcomes[j].step = a.step

FailureOf(a) ==
    IF a.err # "" THEN a.err
    ELSE IF Answered(a)
         THEN (CHOOSE o \in { outcomes[j] : j \in 1..Len(outcomes) } :
                  o.step = a.step).err
         ELSE ""

StepsOf(seq) == AsSeq([i \in 1..Len(seq) |-> seq[i].step])

Increasing(seq) == \A i, j \in 1..Len(seq) : i < j => seq[i] < seq[j]

ObjectKeys(text) == MemberKeys(text.v.kids)

(***************************************************************************)
(* C1  First success wins.  When the execution returns a response, the     *)
(* step k that produced it is the last one called; Call was invoked for    *)
(* the steps 0..k of the resolved route, each once and in this order, on a *)
(* Client built from its own step; every step before k failed; the         *)
(* requests that went upstream belong to steps of 0..k in increasing       *)
(* order, the last of them to k; the response returned is the one parsed   *)
(* from step k's reply; and no step after k is ever called.                *)
(***************************************************************************)
C1_FirstSuccessWins ==
    (Finished /\ result.kind = "response") =>
        LET k == attempts[Len(attempts)].step
        IN  /\ Len(attempts) = k + 1
            /\ \A i \in 1..Len(attempts) :
                  /\ attempts[i].step = i - 1
                  /\ attempts[i].client.name = route.Steps[i].Provider
                  /\ attempts[i].client.model = route.Steps[i].Model
                  /\ i <= k => FailureOf(attempts[i]) # ""
            /\ FailureOf(attempts[k + 1]) = ""
            /\ Increasing(StepsOf(calls))
            /\ \A j \in 1..Len(calls) : calls[j].step <= k
            /\ calls[Len(calls)].step = k
            /\ Len(outcomes) = Len(calls)
            /\ outcomes[Len(outcomes)].step = k
            /\ result.response =
                  ChatResponseUnmarshalJSON(outcomes[Len(outcomes)].reply.body).resp
            /\ result.response.Raw = outcomes[Len(outcomes)].reply.body

\* A second step answers after a first one failed, and a third step exists
\* that is never called.
C1_Witness ==
    /\ pc = "written"
    /\ result.kind = "response"
    /\ Len(route.Steps) = 3
    /\ Len(attempts) = 2
    /\ Len(calls) = 2

(***************************************************************************)
(* C2  Exhaustion.  A RouteError is returned exactly when every step of    *)
(* the resolved route was called and failed; it carries the resolved route *)
(* and one error per step, in step order, entry i with StepIndex i, the    *)
(* provider and model of step i and the text of step i's failure, which is *)
(* not empty.                                                              *)
(***************************************************************************)
C2_AllFailAggregate ==
    /\ (Finished /\ result.kind = "route_error") =>
          /\ result.Route = route
          /\ \E r \in 1..Len(routes) : routes[r] = result.Route
          /\ result.Route.Name = Original.Model
          /\ Len(result.Errors) = Len(route.Steps)
          /\ Len(attempts) = Len(route.Steps)
          /\ \A i \in 1..Len(result.Errors) :
                /\ result.Errors[i].StepIndex = i - 1
                /\ result.Errors[i].Provider = route.Steps[i].Provider
                /\ result.Errors[i].Model = route.Steps[i].Model
                /\ result.Errors[i].Error # ""
                /\ result.Errors[i].Error = FailureOf(attempts[i])
    /\ (Finished /\ Resolved /\ Len(attempts) = Len(route.Steps)
          /\ \A i \in 1..Len(attempts) : FailureOf(attempts[i]) # "")
         => result.kind = "route_error"

\* Three steps of three different kinds of failure.
C2_Witness ==
    /\ pc = "done"
    /\ result.kind = "route_error"
    /\ Len(result.Errors) = 3
    /\ result.Errors[1].Provider # result.Errors[2].Provider
    /\ Cardinality({ result.Errors[i].Error : i \in 1..3 }) = 3

(***************************************************************************)
(* C3  No route.  When no configured route is named like the request's     *)
(* model, the execution ends with the route-not-found error, which names   *)
(* that model; no Client was constructed and nothing went upstream.  The   *)
(* error is returned in no other case.                                     *)
(***************************************************************************)
C3_RouteNotFound ==
    /\ (Finished /\ result.kind # "parse_error"
          /\ \A r \in 1..Len(routes) : routes[r].Name # Original.Model)
         => /\ result.kind = "route_not_found"
            /\ result.model = Original.Model
            /\ attempts = << >>
            /\ calls = << >>
            /\ outcomes = << >>
    /\ result.kind = "route_not_found"
         => \A r \in 1..Len(routes) : routes[r].Name # Original.Model

\* The model is one letter short of a route's name.
C3_Witness ==
    /\ pc = "done"
    /\ result.kind = "route_not_found"
    /\ result.model = "gp"

(***************************************************************************)
(* C4  Step failures are recovered.  Every failed Call, whatever failed in *)
(* it (the transport, the timeout, the upstream status, the response body, *)
(* the preparation of the request), left exactly one step error, in order,  *)
(* and the loop went on to the next step: after a failure the execution    *)
(* stands at the following step, and it has ended only if no step follows  *)
(* or the following step names a missing provider.                         *)
(***************************************************************************)
C4_StepFailureRecovered ==
    LET failed == { i \in 1..Len(attempts) : FailureOf(attempts[i]) # "" }
    IN  /\ Len(stepErrors) = Cardinality(failed)
        /\ \A i \in failed :
              /\ i <= Len(stepErrors)
              /\ stepErrors[i].StepIndex = attempts[i].step
              /\ stepErrors[i].Error = FailureOf(attempts[i])
        /\ (attempts # << >> /\ Len(attempts) \in failed) =>
              /\ stepIndex = attempts[Len(attempts)].step + 1
              /\ \/ pc = "loop"
                 \/ /\ pc = "done"
                    /\ result.kind = "route_error"
                    /\ stepIndex = Len(route.Steps)
                 \/ /\ pc = "done"
                    /\ result.kind = "provider_not_found"
                    /\ stepIndex < Len(route.Steps)
                    /\ route.Steps[stepIndex + 1].Provider \notin DOMAIN providers

\* Two steps have failed, in two different ways one of which is an elapsed
\* timeout, and the third step is in flight.
C4_Witness ==
    /\ pc = "inflight"
    /\ Len(stepErrors) = 2
    /\ stepErrors[1].Error # stepErrors[2].Error
    /\ \E j \in 1..Len(outcomes) : outcomes[j].reply.net = "timeout"
    /\ Len(attempts) = 3

(***************************************************************************)
(* C5  Missing provider.  When the loop reaches a step whose provider is   *)
(* not in the provider map, the execution ends there with an error that is *)
(* no RouteError and carries no step errors; neither that step nor a later *)
(* one is called, and the fault is not added to the step errors.  No step  *)
(* that names a missing provider is ever called.                           *)
(***************************************************************************)
C5_MissingProviderIsFatal ==
    /\ \A i \in 1..Len(attempts) :
          route.Steps[attempts[i].step + 1].Provider \in DOMAIN providers
    /\ \A e \in 1..Len(stepErrors) :
          route.Steps[stepErrors[e].StepIndex + 1].Provider \in DOMAIN providers
    /\ (Resolved /\ pc # "inflight" /\ result.kind # "response"
          /\ stepIndex < Len(route.Steps)
          /\ route.Steps[stepIndex + 1].Provider \notin DOMAIN providers)
         => \/ pc = "loop"
            \/ /\ pc = "done"
               /\ result.kind = "provider_not_found"
    /\ result.kind = "provider_not_found" =>
          /\ result.Errors = << >>
          /\ result.step = stepIndex
          /\ result.provider = route.Steps[stepIndex + 1].Provider
          /\ result.provider \notin DOMAIN providers
          /\ result.Route = route
          /\ \A i \in 1..Len(attempts) : attempts[i].step < result.step
          /\ \A j \in 1..Len(calls) : calls[j].step < result.step
          /\ Len(stepErrors) = result.step

\* The second step names the missing provider, after a first step failed,
\* and a third step follows it.
C5_Witness ==
    /\ pc = "done"
    /\ result.kind = "provider_not_found"
    /\ result.step = 1
    /\ Len(stepErrors) = 1
    /\ Len(route.Steps) = 3

(***************************************************************************)
(* C6  Round trip of the request.  For a step without a directive the body *)
(* sent upstream is the request document parsed, given the step's model    *)
(* and serialized.  Whenever the document has a model member, the body has *)
(* exactly the document's keys, its model is the step's model, and every   *)
(* other key has the value it has in the document.                         *)
(***************************************************************************)
C6_RoundTripKeepsEveryValue ==
    \A j \in 1..Len(calls) :
        LET c    == attempts[calls[j].step + 1].client
            body == calls[j].http.body
        IN  (c.conflictResolution = "" /\ "model" \in ObjectKeys(inbound)) =>
                LET sent == ValueOf(body.v).m
                    had  == ValueOf(inbound.v).m
                IN  /\ ObjectKeys(body) = ObjectKeys(inbound)
                    /\ sent["model"] = GoStr(c.model)
                    /\ \A k \in ObjectKeys(inbound) \ {"model"} : sent[k] = had[k]

(***************************************************************************)
(* C7  Conflict resolution.  The body sent upstream has the keys of the    *)
(* request document, less response_format under the directive "tools",     *)
(* less tools under the directive "format", and all of them without a      *)
(* directive; its model is the step's model; and each key it keeps from    *)
(* the document carries the value decoded from the document.               *)
(***************************************************************************)
C7_ConflictResolution ==
    \A j \in 1..Len(calls) :
        LET c    == attempts[calls[j].step + 1].client
            body == calls[j].http.body
            keys == ObjectKeys(inbound)
            kept == CASE c.conflictResolution = "tools" -> keys \ {"response_format"}
                      [] c.conflictResolution = "format" -> keys \ {"tools"}
                      [] OTHER -> keys
            sent == ValueOf(body.v).m
            got  == Decode(inbound.v).m
        IN  /\ c.conflictResolution \in {"", "tools", "format"}
            /\ c.conflictResolution = route.Steps[calls[j].step + 1].ConflictResolution
            /\ ObjectKeys(body) = kept \cup {"model"}
            /\ sent["model"] = GoStr(route.Steps[calls[j].step + 1].Model)
            /\ \A k \in kept \ {"model"} : sent[k] = got[k]

\* A request with tools and response_format has gone out three times: with
\* the one, with the other, and with both.
C7_Witness ==
    /\ {"tools", "response_format"} \subseteq ObjectKeys(inbound)
    /\ Len(calls) = 3
    /\ { attempts[calls[j].step + 1].client.conflictResolution : j \in 1..3 }
          = {"", "tools", "format"}

(***************************************************************************)
(* C8  Call leaves the caller's request alone.  From the moment it is      *)
(* decoded the caller's request keeps its Model and its Raw document; so   *)
(* every body sent is the one Call makes of the original request, and a    *)
(* field stripped for one step is sent by every other step whose directive *)
(* does not strip it.                                                      *)
(***************************************************************************)
C8_CallerRequestUntouched ==
    /\ (pc # "parse" /\ result.kind # "parse_error") => request = Original
    /\ \A j \in 1..Len(calls) :
          LET c    == attempts[calls[j].step + 1].client
              body == calls[j].http.body
          IN  /\ body = CallPrepare(c, Original).http[1].body
              /\ ("tools" \in ObjectKeys(inbound) /\ c.conflictResolution # "format")
                    => "tools" \in ObjectKeys(body)
              /\ ("response_format" \in ObjectKeys(inbound)
                    /\ c.conflictResolution # "tools")
                    => "response_format" \in ObjectKeys(body)

\* response_format was stripped for the first step and tools for the second;
\* the third step sends both.
C8_Witness ==
    /\ {"tools", "response_format"} \subseteq ObjectKeys(inbound)
    /\ Len(calls) = 3
    /\ attempts[calls[1].step + 1].client.conflictResolution = "tools"
    /\ attempts[calls[2].step + 1].client.conflictResolution = "format"
    /\ attempts[calls[3].step + 1].client.conflictResolution = ""
    /\ {"tools", "response_format"} \subseteq ObjectKeys(calls[3].http.body)
    /\ pc = "done"

C10_FirstExactMatch ==
    /\ Resolved =>
          \E i \in 1..Len(routes) :
              /\ routes[i].Name = Original.Model
              /\ \A j \in 1..(i - 1) : routes[j].Name # Original.Model
              /\ route = routes[i]
    /\ (Finished /\ result.kind = "route_not_found") =>
          /\ result.model = Original.Model
          /\ \A i \in 1..Len(routes) : routes[i].Name # Original.Model
    /\ (Finished /\ result.kind \notin {"parse_error", "route_not_found"}) => Resolved

\* Two routes are named like the model, with different steps, and the
\* earlier one is being run.
C10_Witness ==
    /\ pc = "inflight"
    /\ Original.Model = "gpt"
    /\ routes[2].Name = "gpt" /\ routes[3].Name = "gpt"
    /\ routes[2].Steps # routes[3].Steps
    /\ route = routes[2]

(***************************************************************************)
(* C11  Timeout hierarchy.  As claimed: the timeout of the Client built    *)
(* for a step is the step's own timeout when it has one, otherwise the     *)
(* default_timeout of the loaded configuration, otherwise 30s.             *)
(***************************************************************************)
C11_TimeoutHierarchy ==
    \A i \in 1..Len(attempts) :
        LET step == route.Steps[attempts[i].step + 1]
        IN  attempts[i].client.timeout =
                IF step.Timeout # "" THEN step.Timeout
                ELSE IF config.DefaultTimeout # "" THEN config.DefaultTimeout
                ELSE "30s"

(***************************************************************************)
(* C12  Cancellation.  As claimed: once the inbound context is cancelled   *)
(* during the upstream call of a step, that call gets no reply from the    *)
(* upstream, no later step is attempted, and the execution ends with an    *)
(* outcome of its own, which is no response, no RouteError and carries no  *)
(* step errors.                                                            *)
(***************************************************************************)
C12_CancelAbandonsLoop ==
    cancelled >= 0 =>
        /\ \A i \in 1..Len(attempts) : attempts[i].step <= cancelled
        /\ \A j \in 1..Len(outcomes) :
              outcomes[j].step = cancelled => outcomes[j].reply.net # "ok"
        /\ Finished =>
              /\ result.kind \notin {"response", "route_error"}
              /\ result.Errors = << >>

(***************************************************************************)
(* C13  No retry.  In one execution no step is called twice and no step    *)
(* is sent upstream twice; so neither the Calls made nor the requests sent *)
(* nor the replies received ever outnumber the steps of the resolved       *)
(* route, whatever the steps failed with.                                  *)
(***************************************************************************)
C13_NoRetry ==
    /\ \A i, j \in 1..Len(attempts) :
          i # j => attempts[i].step # attempts[j].step
    /\ \A i, j \in 1..Len(calls) : i # j => calls[i].step # calls[j].step
    /\ \A i, j \in 1..Len(outcomes) : i # j => outcomes[i].step # outcomes[j].step
    /\ Len(attempts) <= Len(route.Steps)
    /\ Len(calls) <= Len(attempts)
    /\ Len(outcomes) <= Len(calls)
    /\ \A j \in 1..Len(calls) : calls[j].step < Len(route.Steps)

\* All three steps of a route ran into the timeout, and the execution ended
\* after three requests.
C13_Witness ==
    /\ pc = "done"
    /\ result.kind = "route_error"
    /\ Len(route.Steps) = 3
    /\ Len(calls) = 3
    /\ \A j \in 1..Len(outcomes) : outcomes[j].reply.net = "timeout"

(***************************************************************************)
(* C14  One call at a time.  At most one upstream call of the execution is *)
(* in flight, and one is exactly while the loop waits in Call; the replies *)
(* come in the order of the requests; and when the request of a step has   *)
(* gone out, every step called before it has returned, with a failure.     *)
(***************************************************************************)
C14_OneCallInFlight ==
    /\ Len(calls) - Len(outcomes) \in {0, 1}
    /\ (Len(calls) - Len(outcomes) = 1) <=> (pc = "inflight")
    /\ \A j \in 1..Len(outcomes) : outcomes[j].step = calls[j].step
    /\ \A j \in 2..Len(calls) :
          /\ Len(outcomes) >= j - 1
          /\ outcomes[j - 1].err # ""
    /\ \A i \in 1..(Len(attempts) - 1) :
          /\ attempts[i].step < attempts[i + 1].step
          /\ FailureOf(attempts[i]) # ""

\* The third request is in flight; the two before it have been answered.
C14_Witness ==
    /\ pc = "inflight"
    /\ Len(calls) = 3
    /\ Len(outcomes) = 2
    /\ outcomes[1].reply.net = "ok"
    /\ outcomes[2].reply.net = "ok"

(***************************************************************************)
(* C16  Upstream status.  As claimed: a reply fails Call with the status   *)
(* error exactly when its status is outside 200..299.                      *)
(***************************************************************************)
C16_StatusErrorIffNon2xx ==
    \A j \in 1..Len(outcomes) :
        outcomes[j].reply.net = "ok" =>
            ((outcomes[j].err = "provider returned status")
                <=> (outcomes[j].reply.status \notin 200..299))

(***************************************************************************)
(* C16, amended.  A reply fails Call with the status error, which carries  *)
(* the status code and the body as received, exactly when its status is    *)
(* not 200; that holds for the other statuses from 201 to 299 too.  A      *)
(* reply with status 200 and a body that parses makes Call succeed: the    *)
(* step is the last one called and the execution returns its response.  A  *)
(* status error is one more step failure: it is recorded and the loop goes *)
(* on.                                                                     *)
(***************************************************************************)
C16_StatusErrorIffNot200 ==
    \A j \in 1..Len(outcomes) :
        LET o == outcomes[j]
            f == CallFinish(o.reply)
        IN  o.reply.net = "ok" =>
              /\ o.err = f.err
              /\ (o.err = "provider returned status") <=> (o.reply.status # StatusOK)
              /\ o.reply.status # StatusOK =>
                    /\ f.args = << o.reply.status, o.reply.body >>
                    /\ \E e \in 1..Len(stepErrors) :
                          /\ stepErrors[e].StepIndex = o.step
                          /\ stepErrors[e].Error = "provider returned status"
              /\ (o.reply.status = StatusOK
                    /\ ChatResponseUnmarshalJSON(o.reply.body).ok) =>
                    /\ o.err = ""
                    /\ j = Len(outcomes)
                    /\ attempts[Len(attempts)].step = o.step
                    /\ Finished
                    /\ result.kind = "response"
                    /\ result.response.Raw = o.reply.body

\* A step was answered 201 with a body that parses and counted as failed;
\* the next step was answered 200 and its response was returned.
C16_Witness ==
    /\ pc = "written"
    /\ Len(outcomes) = 2
    /\ outcomes[1].reply.status = 201
    /\ ChatResponseUnmarshalJSON(outcomes[1].reply.body).ok
    /\ outcomes[1].err = "provider returned status"
    /\ outcomes[2].reply.status = StatusOK

(***************************************************************************)
(* C17  Credentials stay with their provider.  Every request sent upstream *)
(* is a POST to the base URL of the provider its step names, followed by   *)
(* /chat/completions, authorized with the bearer token of that provider's  *)
(* API key; a configured provider's key goes to no base URL but its own;   *)
(* and the gateway's own key is never the token.                           *)
(***************************************************************************)
C17_CredentialsStayWithProvider ==
    \A j \in 1..Len(calls) :
        LET h    == calls[j].http
            step == route.Steps[calls[j].step + 1]
            prov == providers[step.Provider]
        IN  /\ prov.Name = step.Provider
            /\ h.method = "POST"
            /\ h.url = << prov.BaseURL, "/chat/completions" >>
            /\ h.auth = << "Bearer ", prov.APIKey >>
            /\ \A i \in 1..Len(ProviderList) :
                  ProviderList[i].APIKey = h.auth[2]
                      => ProviderList[i].BaseURL = h.url[1]
            /\ h.auth[2] # config.APIKey

\* One execution has sent requests to two providers, each with its own key.
C17_Witness ==
    /\ Len(calls) >= 2
    /\ calls[1].http.url # calls[2].http.url
    /\ calls[1].http.auth # calls[2].http.auth
    /\ calls[1].http.auth[2] = "key2"
    /\ calls[2].http.auth[2] = "key1"

(***************************************************************************)
(* C15  Isolation of concurrent executions.  While calls of                *)
(* ExecuteWithTracing interleave on one Manager, the provider map and the  *)
(* route list stay what NewManager made them; each call that has returned  *)
(* has the result, the step errors and the requests sent that the same     *)
(* request has when run alone on the replies this call received; and a     *)
(* RouteError holds one error per step of its own route, each with the     *)
(* index, provider and model of that step.                                 *)
(***************************************************************************)
C15_ExecutionsIsolated ==
    /\ providers = NewManagerProviders(ProviderList)
    /\ routes = RouteList(<< >>)
    /\ \A e \in DOMAIN execs :
          LET x     == execs[e]
              alone == ExecuteAlone(ExecStart(x.doc), x.fed)
          IN  /\ x.request = ChatRequestUnmarshalJSON(RequestDocs[x.doc]).req
              /\ x.pc = "done" =>
                    /\ alone.pc = "done"
                    /\ x.result = alone.result
                    /\ x.stepErrors = alone.stepErrors
                    /\ x.sent = alone.sent
              /\ x.result.kind = "route_error" =>
                    /\ Len(x.result.Errors) = Len(x.route.Steps)
                    /\ \A i \in 1..Len(x.result.Errors) :
                          /\ x.result.Errors[i].StepIndex = i - 1
                          /\ x.result.Errors[i].Provider = x.route.Steps[i].Provider
                          /\ x.result.Errors[i].Model = x.route.Steps[i].Model

\* Two calls on different routes have both ended with a RouteError, after
\* different failures.
C15_Witness ==
    /\ execs # << >>
    /\ \A e \in DOMAIN execs :
          /\ execs[e].pc = "done"
          /\ execs[e].result.kind = "route_error"
    /\ Len(execs[1].result.Errors) = 3
    /\ Len(execs[2].result.Errors) = 2
    /\ execs[1].fed[1] # execs[2].fed[1]

(***************************************************************************)
(* C18  Reporting changes no outcome.  Whenever the Manager that reports   *)
(* to the tracer has returned or waits for a reply, the Manager that only  *)
(* logs, given the same request, request id and replies, has the same      *)
(* result (the same response, or the same error with the same step         *)
(* errors), has sent the same requests in the same order, and has logged   *)
(* the same; and with any other request id its result and its requests are *)
(* the same again.  The request id shows in the log entries and, when not  *)
(* empty, on the span of the route, and nowhere else.                      *)
(***************************************************************************)
C18_ReportingChangesNothing ==
    ((Finished \/ pc = "inflight") /\ result.kind # "parse_error") =>
        LET fed   == AsSeq([j \in 1..Len(outcomes) |-> outcomes[j].reply])
            plain == PlainExecuteWithTracing(request, requestID, fed)
        IN  /\ plain.result = result
            /\ plain.sent = calls
            /\ plain.stepErrors = stepErrors
            /\ plain.logs = logs
            /\ plain.replies = << >>
            /\ \A rid \in RequestIDs :
                  LET other == PlainExecuteWithTracing(request, rid, fed)
                  IN  /\ other.result = result
                      /\ other.sent = calls
                      /\ \A l \in 1..Len(other.logs) :
                            other.logs[l].request_id = rid
            /\ Resolved =>
                  ((requestID # "") <=>
                      (\E e \in 1..Len(spans) : spans[e].what = "request.id"))

\* Execute ran a route to its end without a request id, and the tracer was
\* told of every failed step and of the failed route.
C18_Witness ==
    /\ pc = "done"
    /\ requestID = ""
    /\ result.kind = "route_error"
    /\ Len(result.Errors) = 3
    /\ Len(logs) = 6
    /\ Cardinality({ e \in 1..Len(spans) : spans[e].what = "step.failed" }) = 3
    /\ \E e \in 1..Len(spans) : spans[e].what = "route.failed"

\* C19: validateConfig accepts a configuration only if the gateway api_key
\* is non-empty, there is at least one provider, every provider has a
\* non-blank name, api_key and base_url, every route has a non-blank name
\* and at least one step, every step has a non-blank provider and model and
\* a provider that is the name of a configured provider, every given step
\* timeout parses as a duration and every conflict_resolution is empty,
\* "tools" or "format"; it rejects whatever violates one of these; and it
\* accepts a configuration that meets them with two routes of one name.
C19_Requirements ==
    LET cfg == candidate
        ps == cfg.Providers
        rs == cfg.Routes
    IN  /\ cfg.APIKey # ""
        /\ Len(ps) >= 1
        /\ \A i \in 1..Len(ps) :
              /\ ps[i].Name \notin {"", " "}
              /\ ps[i].APIKey \notin {"", " "}
              /\ ps[i].BaseURL \notin {"", " "}
        /\ \A i \in 1..Len(rs) :
              /\ rs[i].Name \notin {"", " "}
              /\ Len(rs[i].Steps) >= 1
              /\ \A j \in 1..Len(rs[i].Steps) :
                    LET step == rs[i].Steps[j]
                    IN  /\ step.Provider \notin {"", " "}
                        /\ step.Model \notin {"", " "}
                        /\ \E k \in 1..Len(ps) : ps[k].Name = step.Provider
                        /\ step.Timeout = "" \/ step.Timeout \in ValidDurations
                        /\ step.ConflictResolution \in {"", "tools", "format"}

C19_SameNameTwice ==
    \E i, j \in 1..Len(candidate.Routes) :
        i # j /\ candidate.Routes[i].Name = candidate.Routes[j].Name

C19_ValidationAccepts ==
    verdict # << >> =>
        /\ ~verdict[1].failed => C19_Requirements
        /\ ~C19_Requirements => verdict[1].failed
        /\ C19_Requirements /\ C19_SameNameTwice => ~verdict[1].failed

\* An accepted configuration with two different routes of one name.
C19_Witness ==
    /\ verdict # << >>
    /\ ~verdict[1].failed
    /\ Len(candidate.Routes) = 2
    /\ candidate.Routes[1].Name = candidate.Routes[2].Name
    /\ candidate.Routes[1] # candidate.Routes[2]

\* C20: the status of the chat-completions handler follows the outcome: 400
\* when the body is no valid JSON or fails validation, and then the Manager
\* was never called; 404 exactly when no route matches the model; 502 when
\* the execution fails otherwise; 200 only when a step succeeded.  When
\* every step failed, the body of the 502, decoded as a RouteError, has the
\* name of the route and one step error per step, with the index, provider
\* and model of that step and an error text that is not empty.
C20_StatusAndRouteErrorBody ==
    status # 0 =>
        /\ result.kind = "parse_error" =>
              /\ status = StatusBadRequest
              /\ attempts = << >>
              /\ calls = << >>
              /\ spans = << >>
        /\ status = StatusNotFound <=> result.kind = "route_not_found"
        /\ result.kind \in {"provider_not_found", "route_error"} =>
              status = StatusBadGateway
        /\ status = StatusOK =>
              /\ result.kind = "response"
              /\ \E j \in 1..Len(outcomes) : outcomes[j].err = ""
        /\ result.kind = "route_error" =>
              LET e == DecodeRouteError(errorDoc)
              IN  /\ e.Route.Name = route.Name
                  /\ Len(e.Errors) = Len(route.Steps)
                  /\ \A i \in 1..Len(e.Errors) :
                        /\ e.Errors[i].StepIndex = i - 1
                        /\ e.Errors[i].Provider = route.Steps[i].Provider
                        /\ e.Errors[i].Model = route.Steps[i].Model
                        /\ e.Errors[i].Error # ""

\* C21: on the protected endpoints /v1/models and /v1/chat/completions, a
\* request that carries the configured gateway key in the X-Api-Key header
\* or in an Authorization: Bearer header is admitted to the handler; one
\* that carries it in neither gets 401, the handler is never invoked and
\* no upstream call results; /health is served without a key.
C21_KeyInEitherHeaderAdmits ==
    LET key     == Pieces(config.APIKey)
        carries == \/ arrival.XApiKey = key
                   \/ arrival.Authorization = Bearer \o key
    IN  pc # "serve" =>
            /\ arrival.Path \in {ModelsPath, ChatPath} /\ carries =>
                  served = setupRoutes(arrival.Path).handler
            /\ arrival.Path \in {ModelsPath, ChatPath} /\ ~carries =>
                  /\ status = StatusUnauthorized
                  /\ served = ""
                  /\ request = NoRequest
                  /\ attempts = << >>
                  /\ calls = << >>
            /\ arrival.Path = HealthPath =>
                  /\ served = "handleHealth"
                  /\ status = StatusOK

\* C22: in the logging projection of a request or a response, a string
\* content of at most 100 characters is unchanged, and one of more than 100
\* is its first 100 characters followed by "..."; the same holds of the
\* text of the text blocks of an array content; and the object the
\* projection was computed from keeps its Raw document and its fields.
RECURSIVE C22_CharLen(_)
C22_CharLen(str) == IF str = << >> THEN 0 ELSE str[1].n + C22_CharLen(Tail(str))

RECURSIVE C22_CharPrefix(_, _)
C22_CharPrefix(str, k) ==
    IF k = 0 \/ str = << >> THEN << >>
    ELSE IF str[1].n <= k
         THEN << str[1] >> \o C22_CharPrefix(Tail(str), k - str[1].n)
         ELSE << Run(str[1].c, str[1].w, k) >>

C22_Expected(str) ==
    IF C22_CharLen(str) <= 100 THEN str
    ELSE Concat(C22_CharPrefix(str, 100), << Run(".", 1, 3) >>)

\* The message objects of a document, in order.
C22_Messages(kind, text) ==
    IF kind = "request"
    THEN SelectSeq(ArrField(text.v, "messages"), LAMBDA x : x.t = "obj")
    ELSE LET cs == SelectSeq(ArrField(text.v, "choices"),
                             LAMBDA x : x.t = "obj" /\ FieldLit(x, "message").t = "obj")
         IN  AsSeq([i \in 1..Len(cs) |-> FieldLit(cs[i], "message")])

C22_IsTextBlock(b) ==
    /\ b.t = "obj"
    /\ FieldLit(b, "type") = LStr("text")
    /\ FieldLit(b, "text").t = "bstr"

C22_TruncatedAtLimit ==
    output # << >> =>
        LET before == C22_Messages(input.kind, input.obj.Raw)
            after  == C22_Messages(input.kind, output[1].projection.Raw)
        IN  /\ output[1].receiver = input.obj
            /\ Len(after) = Len(before)
            /\ \A i \in 1..Len(before) :
                  LET c == FieldLit(before[i], "content")
                      d == FieldLit(after[i], "content")
                  IN  /\ c.t = "str" => d = c
                      /\ c.t = "bstr" => d = LBytes(C22_Expected(c.kids))
                      /\ c.t = "arr" =>
                            /\ d.t = "arr"
                            /\ Len(d.kids) = Len(c.kids)
                            /\ \A j \in 1..Len(c.kids) :
                                  C22_IsTextBlock(c.kids[j]) =>
                                      FieldLit(d.kids[j], "text")
                                          = LBytes(C22_Expected(FieldLit(c.kids[j], "text").kids))

\* C23: RouteError.Error() with an empty error list says that all route
\* steps failed for the name of the route; otherwise it names the provider,
\* the model and the error text of the last entry of the list, not of the
\* first; the list stays as it was on the RouteError.
C23_LastErrorReported ==
    output # << >> =>
        /\ Len(input.Errors) = 0 =>
              /\ output[1].text.format = "all route steps failed for model '%s'"
              /\ output[1].text.args = << LStr(input.Route.Name) >>
        /\ Len(input.Errors) > 0 =>
              LET last == input.Errors[Len(input.Errors)]
              IN  /\ output[1].text.format =
                        "all route steps failed for model '%s', last error from %s/%s: %s"
                  /\ output[1].text.args =
                        << LStr(input.Route.Name), LStr(last.Provider),
                           LStr(last.Model), LStr(last.Error) >>
        /\ output[1].receiver = input

\* The text was made for a list whose first and last entries differ in
\* provider, model and error text.
C23_Witness ==
    /\ output # << >>
    /\ Len(input.Errors) >= 2
    /\ input.Errors[1].Provider # input.Errors[Len(input.Errors)].Provider
    /\ input.Errors[1].Model # input.Errors[Len(input.Errors)].Model
    /\ input.Errors[1].Error # input.Errors[Len(input.Errors)].Error

\* C24: IsContentString is true exactly when the content is a JSON string
\* and IsContentArray exactly when it is a JSON array; they are never both
\* true; for a well-formed content of another shape (number, object, null,
\* boolean) both are false; ContentAsString is the empty string for a
\* content that is no string and ContentAsArray is nil for one that is no
\* array.
C24_ShapeChecksExact ==
    output # << >> =>
        LET shape == IF input.Content = << >> THEN "none" ELSE input.Content[1].t
            o     == output[1]
        IN  /\ o.IsContentString <=> shape = "str"
            /\ o.IsContentArray <=> shape = "arr"
            /\ ~(o.IsContentString /\ o.IsContentArray)
            /\ shape \in {"num", "obj", "null", "bool"} =>
                  ~o.IsContentString /\ ~o.IsContentArray
            /\ shape # "str" => o.ContentAsString = ""
            /\ shape # "arr" => o.ContentAsArray.isNil

\* C25: for every Info or Error call, a field whose key contains api_key,
\* apikey, token or secret, in any case, never leaves the logger with its
\* original value: the JSON log line and the telemetry log event each
\* carry "[REDACTED]" or nothing for that field.
C25_Sensitive(k) ==
    \E i \in 1..Len(k) :
        ToLowerPiece(k[i]) \in {"api_key", "apikey", "token", "secret"}

C25_SensitiveFieldsRedacted ==
    output # << >> /\ ~input.fields.isNil =>
        \A k \in DOMAIN input.fields.m :
            C25_Sensitive(k) =>
                /\ \A i \in 1..Len(output[1].line.fields) :
                      k \in DOMAIN output[1].line.fields[i] =>
                          output[1].line.fields[i][k] = GoStr("[REDACTED]")
                /\ k \in DOMAIN output[1].event.attrs =>
                      output[1].event.attrs[k] = GoStr("[REDACTED]")

\* The three messages with which a Manager reports a step to the logger.
C26_StepMessages ==
    {"Trying route step", "Route step failed", "Route step succeeded"}

\* The step reports of one execution, in order: the report of an attempt at
\* every odd position, the one outcome report of that attempt right after it
\* and for the same provider and model, the steps counted from 0 in route
\* order, and a success only as the last report.
C26_StepReportsInOrder(reps) ==
    /\ \A p \in 1..Len(reps) :
          /\ reps[p].msg \in C26_StepMessages
          /\ (reps[p].msg = "Trying route step") <=> (p % 2 = 1)
          /\ (p % 2 = 0) =>
                /\ reps[p].step = (p \div 2) - 1
                /\ reps[p].provider = reps[p - 1].provider
                /\ reps[p].model = reps[p - 1].model
          /\ (reps[p].msg = "Route step succeeded") => (p = Len(reps))

\* The positions at which the tracer was told that the route failed.
C26_RouteFailed ==
    {e \in 1..Len(spans) :
        spans[e].span = "route" /\ spans[e].what = "route.failed"}

\* The Manager with the tracer: an attempt is reported before its upstream
\* call is sent, the outcome only after the call returned, k failures come
\* before the success of step k, and the failed route is reported with the
\* number of steps exactly when every step failed, after the last failure.
C26_TracedReports ==
    /\ C26_StepReportsInOrder(logs)
    /\ Len(attempts) = (Len(logs) + 1) \div 2
    /\ (pc = "inflight") <=> (Len(logs) % 2 = 1)
    /\ \A j \in 1..Len(calls) :
          /\ 2 * calls[j].step + 1 <= Len(logs)
          /\ logs[2 * calls[j].step + 1].msg = "Trying route step"
    /\ pc = "inflight" =>
          /\ calls[Len(calls)].step = stepIndex
          /\ Len(logs) = 2 * stepIndex + 1
          /\ \A j \in 1..Len(outcomes) : outcomes[j].step < stepIndex
    /\ \A j \in 1..Len(outcomes) :
          /\ 2 * outcomes[j].step + 2 <= Len(logs)
          /\ (logs[2 * outcomes[j].step + 2].msg = "Route step failed")
                <=> (outcomes[j].err # "")
    /\ result.kind = "response" =>
          /\ Len(logs) > 0
          /\ logs[Len(logs)].msg = "Route step succeeded"
          /\ Cardinality({p \in 1..Len(logs) : logs[p].msg = "Route step failed"})
                = logs[Len(logs)].step
    /\ (C26_RouteFailed # {}) <=> (result.kind = "route_error")
    /\ Cardinality(C26_RouteFailed) <= 1
    /\ \A e \in C26_RouteFailed :
          /\ spans[e].step = Len(route.Steps)
          /\ Len(stepErrors) = Len(route.Steps)
          /\ Len(logs) = 2 * Len(route.Steps)
          /\ \A p \in 1..Len(logs) :
                (p % 2 = 0) => (logs[p].msg = "Route step failed")
          /\ \A f \in 1..Len(spans) :
                (spans[f].what \in {"step.failed", "RecordError"}) => (f < e)

\* What the Manager without the tracer reports for the same request and the
\* same upstream replies.
C26_Plain ==
    PlainExecuteWithTracing(request, requestID,
        AsSeq([j \in 1..Len(outcomes) |-> outcomes[j].reply]))

\* C26: in one execution the attempt at a step is reported before its
\* upstream call, exactly one of "step failed" and "step succeeded" after the
\* call returned, with k failures before the success of step k; the Manager
\* with the tracer reports "route.failed" with the number of steps exactly
\* when every step failed, after the last failure, and the Manager without
\* the tracer reports the steps in the same order and nothing else.
C26_ReportingOrder ==
    /\ C26_TracedReports
    /\ ((Finished \/ pc = "inflight") /\ result.kind # "parse_error") =>
          /\ C26_StepReportsInOrder(C26_Plain.logs)
          /\ (C26_Plain.result.kind = "response") =>
                C26_Plain.logs[Len(C26_Plain.logs)].msg = "Route step succeeded"

\* C26 as stated, for both Managers: whenever every step failed, the failed
\* route is reported, by the Manager without the tracer as well.
C26_RouteFailedReportedByBoth ==
    /\ C26_TracedReports
    /\ ((Finished \/ pc = "inflight") /\ result.kind # "parse_error") =>
          /\ C26_StepReportsInOrder(C26_Plain.logs)
          /\ (C26_Plain.result.kind = "route_error") =>
                \E l \in 1..Len(C26_Plain.logs) :
                    C26_Plain.logs[l].msg \notin C26_StepMessages

\* Step 2 of a three-step route succeeded after two reported failures.
C26_WitnessSuccessAfterFailures ==
    /\ Finished
    /\ result.kind = "response"
    /\ Len(logs) = 6
    /\ logs[6].msg = "Route step succeeded"
    /\ logs[6].step = 2
    /\ Len(outcomes) = 3

\* Every step of a route of several steps failed and the tracer was told.
C26_WitnessRouteFailed ==
    /\ Finished
    /\ result.kind = "route_error"
    /\ Len(route.Steps) >= 2
    /\ Len(outcomes) >= 2
    /\ C26_RouteFailed # {}
    /\ C26_Plain.result.kind = "route_error"

\* The model the inbound document asks for.
C27_InboundModel == ChatRequestUnmarshalJSON(inbound).req.Model

\* The names of the providers the steps of a route name.
C27_ProvidersOf(r) == { r.Steps[k].Provider : k \in 1..Len(r.Steps) }

\* C27: the route is resolved once, from the model of the inbound request:
\* at every point of an execution the route is the first configured route
\* of that name, every upstream call is the call of a step of that route, to
\* that step's provider and with that step's model, and no call goes to a
\* provider that the route does not name, whatever routes the models of its
\* steps name.
C27_RoutedOnce ==
    Resolved =>
        LET hits == { i \in 1..Len(routes) : routes[i].Name = C27_InboundModel }
        IN  /\ hits # {}
            /\ route = routes[CHOOSE i \in hits : \A j \in hits : i <= j]
            /\ request.Model = C27_InboundModel
            /\ \A j \in 1..Len(calls) :
                  /\ calls[j].step < Len(route.Steps)
                  /\ LET s == route.Steps[calls[j].step + 1]
                     IN  /\ s.Provider \in DOMAIN providers
                         /\ calls[j].http.url =
                               << providers[s.Provider].BaseURL, "/chat/completions" >>
                         /\ calls[j].http.auth =
                               << "Bearer ", providers[s.Provider].APIKey >>
                         /\ ValueOf(calls[j].http.body.v).m["model"] = GoStr(s.Model)
                  /\ \A n \in DOMAIN providers \ C27_ProvidersOf(route) :
                        calls[j].http.url[1] # providers[n].BaseURL

\* A request for route "m1" was sent to its first step with the model "m2",
\* the name of another route, and went on to the second step of "m1".
C27_Witness ==
    /\ C27_InboundModel = "m1"
    /\ Len(calls) >= 2
    /\ ValueOf(calls[1].http.body.v).m["model"] = GoStr("m2")
    /\ \E i \in 1..Len(routes) :
          /\ routes[i].Name = "m2"
          /\ routes[i].Steps[2].Provider \notin DOMAIN providers
    /\ calls[2].step = 1
    /\ calls[2].http.url[1] = providers["p1"].BaseURL

\* A request for route "GPT", whose steps name one provider only, was sent
\* upstream while another provider is configured for the other routes.
C27_WitnessOtherProvider ==
    /\ C27_InboundModel = "GPT"
    /\ Len(calls) >= 1
    /\ DOMAIN providers \ C27_ProvidersOf(route) # {}

\* The attempts of an execution that failed, before sending or after.
C28_FailedAttempts ==
    { i \in 1..Len(attempts) :
        \/ attempts[i].err # ""
        \/ \E j \in 1..Len(outcomes) :
              outcomes[j].step = attempts[i].step /\ outcomes[j].err # "" }

\* C28: an execution returns either a response or an error and not both: a
\* response comes with no error and an error with no response; the
\* RouteError is returned only after every step of the route was called
\* once, in order, and failed, and it holds their errors; a response is the
\* one of the last step called, every step before it having failed, and it
\* comes with none of the step errors recorded before it.  Until it returns
\* an execution has no result.
C28_OneOutcome ==
    /\ pc \in {"execute", "loop", "inflight"} => result = NoResult
    /\ (Finished /\ result.kind # "parse_error") =>
          /\ result.kind \in {"response", "route_not_found",
                               "provider_not_found", "route_error"}
          /\ result.kind # "response" => result.response = NoResponse
          /\ result.kind = "response" =>
                /\ result = [NoResult EXCEPT !.kind = "response",
                                             !.response = result.response]
                /\ Len(outcomes) > 0
                /\ Len(attempts) > 0
                /\ LET o == outcomes[Len(outcomes)]
                   IN  /\ o.err = ""
                       /\ o.step = attempts[Len(attempts)].step
                       /\ result.response = CallFinish(o.reply).resp
                /\ C28_FailedAttempts = 1..(Len(attempts) - 1)
                /\ Len(stepErrors) = Len(attempts) - 1
          /\ result.kind = "route_error" =>
                /\ Len(attempts) = Len(route.Steps)
                /\ \A i \in 1..Len(attempts) : attempts[i].step = i - 1
                /\ C28_FailedAttempts = 1..Len(attempts)
                /\ Cardinality({ j \in 1..Len(outcomes) : outcomes[j].err = "" }) = 0
                /\ \A i, j \in 1..Len(calls) :
                      calls[i].step = calls[j].step => i = j
                /\ result.Route = route
                /\ result.Errors = stepErrors
                /\ Len(stepErrors) = Len(route.Steps)

\* A response was returned after step errors had been recorded.
C28_Witness ==
    /\ Finished
    /\ result.kind = "response"
    /\ Len(stepErrors) >= 1
    /\ result.Errors = << >>

\* The RouteError was returned for a route of several steps.
C28_WitnessRouteError ==
    /\ Finished
    /\ result.kind = "route_error"
    /\ Len(route.Steps) >= 2
    /\ Len(result.Errors) = Len(route.Steps)

\* The steps of a route whose provider the Manager does not have, counted
\* from 0.
C29_Missing(r) ==
    { k \in 0..(Len(r.Steps) - 1) : r.Steps[k + 1].Provider \notin DOMAIN providers }

\* The first of them.
C29_FirstMissing(r) ==
    CHOOSE k \in C29_Missing(r) : \A l \in C29_Missing(r) : k <= l

\* C29: a step with a missing provider is met only when the loop reaches it.
\* With k the first such step of the resolved route, the steps before k are
\* attempted in order and nothing past k ever is; an execution that ends
\* with a response ends before k and carries no trace of the fault; one
\* that ends otherwise ends at k, after k failed attempts, with the
\* provider-not-found error naming the route, k and the provider and
\* holding none of the k step errors recorded; the Manager without the
\* tracer returns the same.
C29_LazyMissingProvider ==
    (Resolved /\ C29_Missing(route) # {}) =>
        LET k == C29_FirstMissing(route)
        IN  /\ Len(attempts) <= k
            /\ \A i \in 1..Len(attempts) : attempts[i].step = i - 1
            /\ \A j \in 1..Len(calls) : calls[j].step < k
            /\ stepIndex <= k
            /\ Finished =>
                  /\ result.kind \in {"response", "provider_not_found"}
                  /\ PlainExecuteWithTracing(request, requestID,
                        AsSeq([j \in 1..Len(outcomes) |-> outcomes[j].reply])).result
                        = result
                  /\ result.kind = "response" =>
                        /\ Len(attempts) >= 1
                        /\ outcomes[Len(outcomes)].err = ""
                        /\ outcomes[Len(outcomes)].step < k
                        /\ result.provider = ""
                        /\ result.Errors = << >>
                        /\ ErrorText(result) = [format |-> "", args |-> << >>]
                  /\ result.kind = "provider_not_found" =>
                        /\ Len(attempts) = k
                        /\ C28_FailedAttempts = 1..k
                        /\ Len(stepErrors) = k
                        /\ result.Errors = << >>
                        /\ ErrorText(result) =
                              [format |-> "route '%s' step %d: provider '%s' not found",
                               args   |-> << LStr(route.Name), LInt(0, k),
                                             LStr(route.Steps[k + 1].Provider) >>]

\* The first step of a route failed and the execution ended at its second
\* step, whose provider is missing.
C29_Witness ==
    /\ Finished
    /\ result.kind = "provider_not_found"
    /\ C29_Missing(route) # {}
    /\ C29_FirstMissing(route) >= 1
    /\ Len(stepErrors) = C29_FirstMissing(route)
    /\ Len(outcomes) >= 1

\* A step before the one with the missing provider succeeded.
C29_WitnessNeverSurfaces ==
    /\ Finished
    /\ result.kind = "response"
    /\ C29_Missing(route) # {}

\* C30: a Manager that main built from a configuration validateConfig
\* accepted has a provider for every step of every route, and no execution
\* of it returns the provider-not-found error: what it returns is a
\* response, the route-not-found error or the RouteError.  A configuration
\* that validateConfig rejects gets no Manager.
C30_ValidatedNeverMissesProvider ==
    /\ pc = "load" => verdict = << >>
    /\ pc # "load" => verdict = << validateConfig(candidate) >>
    /\ (verdict # << >> /\ verdict[1].failed) =>
          /\ pc = "fatal"
          /\ result = NoResult
          /\ calls = << >>
    /\ (verdict # << >> /\ ~verdict[1].failed) =>
          /\ routes = candidate.Routes
          /\ \A i \in 1..Len(routes) : \A k \in 1..Len(routes[i].Steps) :
                routes[i].Steps[k].Provider \in DOMAIN providers
          /\ result.kind # "provider_not_found"
          /\ (Finished /\ result.kind # "parse_error") =>
                result.kind \in {"response", "route_not_found", "route_error"}

\* Every step of a two-step route of a validated configuration failed.
C30_Witness ==
    /\ verdict # << >>
    /\ ~verdict[1].failed
    /\ Finished
    /\ result.kind = "route_error"
    /\ Len(route.Steps) = 2
    /\ Len(calls) = 2

\* A validated configuration with two providers of one name served a
\* request.
C30_WitnessSameName ==
    /\ verdict # << >>
    /\ ~verdict[1].failed
    /\ Len(candidate.Providers) = 2
    /\ candidate.Providers[1].Name = candidate.Providers[2].Name
    /\ Finished
    /\ result.kind = "response"

\* main ended on a configuration whose route names a provider that is not
\* in the providers list.
C30_WitnessRejected ==
    /\ pc = "fatal"
    /\ \E i \in 1..Len(candidate.Routes) :
          \E k \in 1..Len(candidate.Routes[i].Steps) :
             candidate.Routes[i].Steps[k].Provider
                \notin { candidate.Providers[j].Name : j \in 1..Len(candidate.Providers) }

=============================================================================
